---- MODULE Spec2Model ----
(***************************************************************************)
(* Model of the 6-axis minesweeper engine: the bounded wrapping iterator   *)
(* (src/src/bwi.rs) and the game board (src/src/minesweeper_model.rs).     *)
(* A coordinate is the tuple <<x, y, z, u, v, w>>; the board is a function *)
(* from coordinates to cells.  A cell is a record [kind, c, d, g]: kind is *)
(* the CellState variant, c the true neighbouring mine count, d the delta  *)
(* and g the highlight groups.  The mine variants carry no c and d; the    *)
(* record keeps them at 0 so that all cells have one shape.                *)
(***************************************************************************)
EXTENDS Integers, Sequences, FiniteSets, TLC

DIMENSIONS_COUNT == 6

\* ------------------------------------------------------------------ bounds
\* Largest size of the one long axis of a board that is a line (any axis).
MaxAxis == 4
\* Largest size of the x and of the y axis of a board that is a plane.
MaxPlane == 2
\* Largest number of axes whose wrap flag is set.
MaxWrapped == 1
\* Number of distinct 64-bit seeds the model draws from (0 .. NumSeeds-1).
NumSeeds == 2
\* highlight_at is issued on the coordinates whose indices sum to at most this.
MaxHighlightIndex == 0
\* The arguments of an observed BWI::new lie within -MaxBWI .. MaxBWI.
MaxBWI == 4
\* Number of calls of next() that return None before the iterator is dropped.
MaxNones == 2

\* ------------------------------------------------------------------ state
VARIABLES
    size,                     \* [usize; 6]
    wrap,                     \* [bool; 6]
    seed,                     \* resolved generation seed
    board,                    \* the grid of CellState
    state,                    \* GameState
    mine_count,               \* configured number of mines
    marked_as_mine,           \* number of marked cells
    undiscoved_empty_fields,  \* number of empty cells not yet discovered
    total_fields,             \* number of cells
    newArgs,                  \* the arguments (initial, seed) of the construction
                              \* while no command has been issued since; else NoArgs
    call,                     \* the probe_at call in progress: its locals
    bwi                       \* a BWI iterator: its fields and what it returned

vars == <<size, wrap, seed, board, state, mine_count, marked_as_mine,
          undiscoved_empty_fields, total_fields, newArgs, call, bwi>>

\* Option<T>: None is the empty sequence, Some(v) the sequence of v alone.
None == <<>>
Some(v) == <<v>>
Unwrap(o) == o[1]

\* newArgs once a command has been issued.
NoArgs == [fresh |-> FALSE, initial |-> None, seed |-> None]

\* call while no probe_at call is observed step by step.
NoCall == [active |-> FALSE, deque |-> <<>>, probe_marked |-> FALSE,
           enqueued |-> 0, steps |-> 0, pushes |-> <<>>]

\* bwi while no iterator is observed.
NoBWI == [made |-> FALSE]

\* The board variables while no board is observed.
NoBoard ==
    [size |-> <<>>, wrap |-> <<>>, seed |-> 0, board |-> <<>>, state |-> "Running",
     mine_count |-> 0, marked_as_mine |-> 0, undiscoved_empty_fields |-> 0,
     total_fields |-> 0]

GameState == {"Running", "Victory", "Loss"}

MineKinds == {"UndiscoveredMine", "MarkedMine", "ExplodedMine"}
EmptyKinds == {"UndiscoveredEmpty", "MarkedEmpty", "DiscoveredEmpty"}
CellKinds == MineKinds \cup EmptyKinds

UndiscoveredMine(g) == [kind |-> "UndiscoveredMine", c |-> 0, d |-> 0, g |-> g]
MarkedMine(g) == [kind |-> "MarkedMine", c |-> 0, d |-> 0, g |-> g]
ExplodedMine(g) == [kind |-> "ExplodedMine", c |-> 0, d |-> 0, g |-> g]
UndiscoveredEmpty(c, d, g) == [kind |-> "UndiscoveredEmpty", c |-> c, d |-> d, g |-> g]
MarkedEmpty(c, d, g) == [kind |-> "MarkedEmpty", c |-> c, d |-> d, g |-> g]
DiscoveredEmpty(c, d, g) == [kind |-> "DiscoveredEmpty", c |-> c, d |-> d, g |-> g]

IsMine(cell) == cell.kind \in MineKinds
IsEmpty(cell) == cell.kind \in EmptyKinds
IsMarked(cell) == cell.kind \in {"MarkedMine", "MarkedEmpty"}

\* All coordinates of a board of the given sizes.
Coords(sz) ==
    {<<x, y, z, u, v, w>> : x \in 0..(sz[1]-1), y \in 0..(sz[2]-1), z \in 0..(sz[3]-1),
                           u \in 0..(sz[4]-1), v \in 0..(sz[5]-1), w \in 0..(sz[6]-1)}

Product(sz) == sz[1] * sz[2] * sz[3] * sz[4] * sz[5] * sz[6]

\* ------------------------------------------------------------------ bwi.rs
\* The values the iterator emits from `current` on: `current` itself, then
\* each successor while it does not exceed `to`.
RECURSIVE BWIRun(_, _)
BWIRun(current, to) ==
    IF current + 1 <= to THEN <<current>> \o BWIRun(current + 1, to)
    ELSE <<current>>

\* Mutant of BWI: the wrapped highest value is never yielded.
BWINoLast(from, to, lowest, highest, wr) ==
    LET first == IF to > highest /\ wr THEN <<lowest>> ELSE <<>>
        current == IF from > lowest THEN from ELSE lowest
        to2 == IF to < highest THEN to ELSE highest
    IN first \o BWIRun(current, to2)

\* The sequence BWI::new(from, to, lowest, highest, wrap) yields.
BWI(from, to, lowest, highest, wr) ==
    LET first == IF to > highest /\ wr THEN <<lowest>> ELSE <<>>
        last == IF from < lowest /\ wr THEN <<highest>> ELSE <<>>
        current == IF from > lowest THEN from ELSE lowest
        to2 == IF to < highest THEN to ELSE highest
    IN first \o BWIRun(current, to2) \o last

\* Mutant of BWIFirst: the wrapped lowest value is also yielded when the
\* window ends exactly at the highest value.
BWIFirstOffByOne(to, lowest, highest, wr) ==
    IF to >= highest /\ wr THEN Some(lowest) ELSE None

\* Mutant of BWILast: the wrapped highest value is also yielded when the
\* window starts exactly at the lowest value.
BWILastOffByOne(from, lowest, highest, wr) ==
    IF from <= lowest /\ wr THEN Some(highest) ELSE None

\* BWI::new, field by field.
BWIFirst(to, lowest, highest, wr) ==
    IF to > highest /\ wr THEN Some(lowest) ELSE None
BWILast(from, lowest, highest, wr) ==
    IF from < lowest /\ wr THEN Some(highest) ELSE None
BWICurrent(from, lowest) ==
    IF from > lowest THEN Some(from) ELSE Some(lowest)
BWITo(to, highest) ==
    IF to < highest THEN to ELSE highest

\* BWI::new: the iterator struct.
BWINew(from, to, lowest, highest, wr) ==
    [first |-> BWIFirst(to, lowest, highest, wr),
     current |-> BWICurrent(from, lowest),
     to |-> BWITo(to, highest),
     last |-> BWILast(from, lowest, highest, wr)]

\* Mutant of BWINextOf: `last` is tried before `current`.
BWINextOfLastEarly(it) ==
    IF it.first # None
    THEN [it |-> [it EXCEPT !.first = None], ret |-> it.first]
    ELSE IF it.last # None
    THEN [it |-> [it EXCEPT !.last = None], ret |-> it.last]
    ELSE IF it.current # None
    THEN LET mid == Unwrap(it.current)
         IN [it |-> [it EXCEPT !.current =
                        IF mid + 1 <= it.to THEN Some(mid + 1) ELSE None],
             ret |-> Some(mid)]
    ELSE [it |-> it, ret |-> None]

\* Iterator::next for BWI: the struct it leaves and the value it returns.
BWINextOf(it) ==
    IF it.first # None
    THEN [it |-> [it EXCEPT !.first = None], ret |-> it.first]
    ELSE IF it.current # None
    THEN LET mid == Unwrap(it.current)
         IN [it |-> [it EXCEPT !.current =
                        IF mid + 1 <= it.to THEN Some(mid + 1) ELSE None],
             ret |-> Some(mid)]
    ELSE IF it.last # None
    THEN [it |-> [it EXCEPT !.last = None], ret |-> it.last]
    ELSE [it |-> it, ret |-> None]

\* BWI::new(i-1, i+1, 0, s-1, wrap) of one axis around coordinate co.
AxisBWI(co, axis, sz, wr) == BWI(co[axis] - 1, co[axis] + 1, 0, sz[axis] - 1, wr[axis])

\* The six nested `for ... in BWI::new(...)` loops around co: every tuple of
\* the cross product, in loop order (w outermost, x innermost), co included.
NestedLoops(co, sz, wr) ==
    LET X == AxisBWI(co, 1, sz, wr)
        Y == AxisBWI(co, 2, sz, wr)
        Z == AxisBWI(co, 3, sz, wr)
        U == AxisBWI(co, 4, sz, wr)
        V == AxisBWI(co, 5, sz, wr)
        W == AxisBWI(co, 6, sz, wr)
        lx == Len(X)
        ly == Len(Y)
        lz == Len(Z)
        lu == Len(U)
        lv == Len(V)
        lw == Len(W)
    IN [k \in 1..(lx * ly * lz * lu * lv * lw) |->
          LET n == k - 1
          IN <<X[(n % lx) + 1],
               Y[((n \div lx) % ly) + 1],
               Z[((n \div (lx * ly)) % lz) + 1],
               U[((n \div (lx * ly * lz)) % lu) + 1],
               V[((n \div (lx * ly * lz * lu)) % lv) + 1],
               W[((n \div (lx * ly * lz * lu * lv)) % lw) + 1]>>]

\* Mutant of NeighbourSeq: the `!=` test is missing, the centre is enumerated.
NeighbourSeqWithCentre(co, sz, wr) ==
    NestedLoops(co, sz, wr)

\* The loops with the `!=` test on the coordinates: the neighbour enumeration.
NeighbourSeq(co, sz, wr) ==
    LET differs(e) == e # co
    IN SelectSeq(NestedLoops(co, sz, wr), differs)

\* ------------------------------------------------ minesweeper_model.rs
\* The GameBoard struct as a record of its fields.
Self ==
    [size |-> size, wrap |-> wrap, seed |-> seed, board |-> board, state |-> state,
     mine_count |-> mine_count, marked_as_mine |-> marked_as_mine,
     undiscoved_empty_fields |-> undiscoved_empty_fields, total_fields |-> total_fields]

\* GameBoard::cell_at
cell_at(G, co) == G.board[co]

\* Mutant of AdjustCell: the count is moved in place of the delta.
AdjustCellCount(cell, by) ==
    IF cell.kind \in {"UndiscoveredEmpty", "DiscoveredEmpty", "MarkedEmpty"}
    THEN [cell EXCEPT !.c = @ + by]
    ELSE cell

\* Mutant of AdjustCell: the MarkedEmpty arm of the inner `match` is missing.
AdjustCellNoMarkedArm(cell, by) ==
    IF cell.kind \in {"UndiscoveredEmpty", "DiscoveredEmpty"}
    THEN [cell EXCEPT !.d = @ + by]
    ELSE cell

\* Mutant of AdjustCell: the adjusted cell is rebuilt without its highlight.
AdjustCellDropsHighlight(cell, by) ==
    IF cell.kind \in {"UndiscoveredEmpty", "DiscoveredEmpty", "MarkedEmpty"}
    THEN [cell EXCEPT !.d = @ + by, !.g = 0]
    ELSE cell

\* The inner `match` of mark_at's loops: the delta of an empty cell of any
\* sub-variant moves by `by`; a mine cell is left alone.
AdjustCell(cell, by) ==
    IF cell.kind \in {"UndiscoveredEmpty", "DiscoveredEmpty", "MarkedEmpty"}
    THEN [cell EXCEPT !.d = @ + by]
    ELSE cell

\* One of mark_at's two loop nests: every entry of the neighbour enumeration,
\* in order, has its cell adjusted (an entry enumerated twice is adjusted twice).
RECURSIVE AdjustNeighbours(_, _, _, _)
AdjustNeighbours(b, nbrs, i, by) ==
    IF i > Len(nbrs) THEN b
    ELSE AdjustNeighbours([b EXCEPT ![nbrs[i]] = AdjustCell(@, by)], nbrs, i + 1, by)

\* Mutant of FlipCell: a Discovered Empty cell is marked as well.
FlipCellMarksDiscovered(cell) ==
    CASE cell.kind = "UndiscoveredMine" -> MarkedMine(cell.g)
      [] cell.kind = "MarkedMine" -> UndiscoveredMine(cell.g)
      [] cell.kind = "ExplodedMine" -> cell
      [] cell.kind = "UndiscoveredEmpty" -> MarkedEmpty(cell.c, cell.d, cell.g)
      [] cell.kind = "MarkedEmpty" -> UndiscoveredEmpty(cell.c, cell.d, cell.g)
      [] cell.kind = "DiscoveredEmpty" -> MarkedEmpty(cell.c, cell.d, cell.g)

\* mark_at's second `match`: mark unmarked, unmark marked.
FlipCell(cell) ==
    CASE cell.kind = "UndiscoveredMine" -> MarkedMine(cell.g)
      [] cell.kind = "MarkedMine" -> UndiscoveredMine(cell.g)
      [] cell.kind = "ExplodedMine" -> cell
      [] cell.kind = "UndiscoveredEmpty" -> MarkedEmpty(cell.c, cell.d, cell.g)
      [] cell.kind = "MarkedEmpty" -> UndiscoveredEmpty(cell.c, cell.d, cell.g)
      [] cell.kind = "DiscoveredEmpty" -> cell

\* Mutant of FlipCount: unmarking leaves the counter alone.
FlipCountNoUnmark(cell) ==
    CASE cell.kind \in {"UndiscoveredMine", "UndiscoveredEmpty"} -> 1
      [] OTHER -> 0

\* The change of marked_as_mine made by mark_at's second `match`.
FlipCount(cell) ==
    CASE cell.kind \in {"UndiscoveredMine", "UndiscoveredEmpty"} -> 1
      [] cell.kind \in {"MarkedMine", "MarkedEmpty"} -> -1
      [] OTHER -> 0

\* Mutant of mark_at: unmarking subtracts from the neighbours' delta as well.
mark_at_SameSign(G, co) ==
    LET cell == G.board[co]
        nbrs == NeighbourSeq(co, G.size, G.wrap)
        b1 == CASE cell.kind \in {"UndiscoveredMine", "UndiscoveredEmpty",
                                  "MarkedMine", "MarkedEmpty"} ->
                     AdjustNeighbours(G.board, nbrs, 1, -1)
                [] OTHER -> G.board
    IN [G EXCEPT !.board = [b1 EXCEPT ![co] = FlipCell(b1[co])],
                 !.marked_as_mine = @ + FlipCount(b1[co])]

\* GameBoard::mark_at
mark_at(G, co) ==
    LET cell == G.board[co]
        nbrs == NeighbourSeq(co, G.size, G.wrap)
        b1 == CASE cell.kind \in {"UndiscoveredMine", "UndiscoveredEmpty"} ->
                     AdjustNeighbours(G.board, nbrs, 1, -1)
                [] cell.kind \in {"MarkedMine", "MarkedEmpty"} ->
                     AdjustNeighbours(G.board, nbrs, 1, 1)
                [] OTHER -> G.board
    IN [G EXCEPT !.board = [b1 EXCEPT ![co] = FlipCell(b1[co])],
                 !.marked_as_mine = @ + FlipCount(b1[co])]

\* Mutant of ProbeUndiscoveredMine: the state is not set.
ProbeUndiscoveredMineNoLoss(G, co) ==
    [G EXCEPT !.board[co] = ExplodedMine(G.board[co].g)]

\* probe_at's arm for UndiscoveredMine: the cell explodes, the game is lost.
ProbeUndiscoveredMine(G, co) ==
    [G EXCEPT !.board[co] = ExplodedMine(G.board[co].g), !.state = "Loss"]

\* Mutant of ProbeMarkedMine: the state is not set.
ProbeMarkedMineNoLoss(G, co, probe_marked) ==
    IF probe_marked
    THEN [mark_at(G, co) EXCEPT !.board[co] = ExplodedMine(G.board[co].g)]
    ELSE G

\* Mutant of ProbeMarkedMine: the mine explodes without being unmarked.
ProbeMarkedMineNoUnmark(G, co, probe_marked) ==
    IF probe_marked
    THEN [G EXCEPT !.board[co] = ExplodedMine(G.board[co].g),
                   !.state = "Loss"]
    ELSE G

\* probe_at's arm for MarkedMine: the same after unmarking, if marked cells
\* are probed at all.
ProbeMarkedMine(G, co, probe_marked) ==
    IF probe_marked
    THEN [mark_at(G, co) EXCEPT !.board[co] = ExplodedMine(G.board[co].g),
                                !.state = "Loss"]
    ELSE G

\* Mutant of ProbeUndiscoveredEmpty: the discovered cell loses its delta.
ProbeUndiscoveredEmptyDropsDelta(G, co) ==
    LET cell == G.board[co]
    IN [G EXCEPT !.board[co] = DiscoveredEmpty(cell.c, 0, cell.g),
                 !.undiscoved_empty_fields = @ - 1]

\* probe_at's arm for UndiscoveredEmpty: the cell is discovered.
ProbeUndiscoveredEmpty(G, co) ==
    LET cell == G.board[co]
    IN [G EXCEPT !.board[co] = DiscoveredEmpty(cell.c, cell.d, cell.g),
                 !.undiscoved_empty_fields = @ - 1]

\* Mutant of ProbePush: the test on the count is off by one.
ProbePushOffByOne(G, co) ==
    IF G.board[co].c <= 1 THEN NeighbourSeq(co, G.size, G.wrap) ELSE <<>>

\* "Recurse for cells with no mines in neighbors": what the UndiscoveredEmpty
\* arm pushes to the back of the queue.
ProbePush(G, co) ==
    IF G.board[co].c = 0 THEN NeighbourSeq(co, G.size, G.wrap) ELSE <<>>

\* Mutant of ProbeMarkedEmpty: the cell is revealed whatever probe_marked is.
ProbeMarkedEmptyAlways(G, co, probe_marked) ==
    LET cell == G.board[co]
    IN [mark_at(G, co) EXCEPT !.board[co] = DiscoveredEmpty(cell.c, cell.d, cell.g),
                              !.undiscoved_empty_fields = @ - 1]

\* Mutant of ProbeMarkedEmpty: the cell is revealed without being unmarked.
ProbeMarkedEmptyNoUnmark(G, co, probe_marked) ==
    LET cell == G.board[co]
    IN IF probe_marked
       THEN [G EXCEPT !.board[co] = DiscoveredEmpty(cell.c, cell.d, cell.g),
                      !.undiscoved_empty_fields = @ - 1]
       ELSE G

\* Mutant of ProbeMarkedEmpty: the undiscovered-empty counter is not lowered.
ProbeMarkedEmptyNoCount(G, co, probe_marked) ==
    LET cell == G.board[co]
    IN IF probe_marked
       THEN [mark_at(G, co) EXCEPT !.board[co] = DiscoveredEmpty(cell.c, cell.d, cell.g)]
       ELSE G

\* probe_at's arm for MarkedEmpty: unmarked, then discovered, if marked cells
\* are probed at all; nothing is pushed.
ProbeMarkedEmpty(G, co, probe_marked) ==
    LET cell == G.board[co]
    IN IF probe_marked
       THEN [mark_at(G, co) EXCEPT !.board[co] = DiscoveredEmpty(cell.c, cell.d, cell.g),
                                   !.undiscoved_empty_fields = @ - 1]
       ELSE G

\* Mutant of ProbeCell: the arm of DiscoveredEmpty pushes the neighbours too.
ProbeCellRepush(G, co, probe_marked) ==
    LET kind == G.board[co].kind
    IN CASE kind = "UndiscoveredMine" ->
              [G |-> ProbeUndiscoveredMine(G, co), push |-> <<>>]
         [] kind = "MarkedMine" ->
              [G |-> ProbeMarkedMine(G, co, probe_marked), push |-> <<>>]
         [] kind = "ExplodedMine" -> [G |-> G, push |-> <<>>]
         [] kind = "UndiscoveredEmpty" ->
              [G |-> ProbeUndiscoveredEmpty(G, co), push |-> ProbePush(G, co)]
         [] kind = "MarkedEmpty" ->
              [G |-> ProbeMarkedEmpty(G, co, probe_marked), push |-> <<>>]
         [] kind = "DiscoveredEmpty" -> [G |-> G, push |-> ProbePush(G, co)]

\* The body of probe_at's `while let` for the dequeued coordinate co:
\* the board after the `match`, and what the arm pushed to the queue.
ProbeCell(G, co, probe_marked) ==
    LET kind == G.board[co].kind
    IN CASE kind = "UndiscoveredMine" ->
              [G |-> ProbeUndiscoveredMine(G, co), push |-> <<>>]
         [] kind = "MarkedMine" ->
              [G |-> ProbeMarkedMine(G, co, probe_marked), push |-> <<>>]
         [] kind = "ExplodedMine" -> [G |-> G, push |-> <<>>]
         [] kind = "UndiscoveredEmpty" ->
              [G |-> ProbeUndiscoveredEmpty(G, co), push |-> ProbePush(G, co)]
         [] kind = "MarkedEmpty" ->
              [G |-> ProbeMarkedEmpty(G, co, probe_marked), push |-> <<>>]
         [] kind = "DiscoveredEmpty" -> [G |-> G, push |-> <<>>]

\* probe_at's `while let Some(..) = deque.pop_front()` loop, run until the
\* queue is empty.
RECURSIVE ProbeLoop(_, _, _)
ProbeLoop(G, deque, probe_marked) ==
    IF deque = <<>> THEN G
    ELSE LET r == ProbeCell(G, Head(deque), probe_marked)
         IN ProbeLoop(r.G, Tail(deque) \o r.push, probe_marked)

\* Mutant of ProbeFinish: the test on the counter is off by one.
ProbeFinishOffByOne(G) ==
    IF G.state # "Loss" /\ G.undiscoved_empty_fields <= 1
    THEN [G EXCEPT !.state = "Victory"]
    ELSE G

\* Mutant of ProbeFinish: the test on Loss is missing.
ProbeFinishNoLossTest(G) ==
    IF G.undiscoved_empty_fields = 0
    THEN [G EXCEPT !.state = "Victory"]
    ELSE G

\* probe_at's closing test, after the queue has drained.
ProbeFinish(G) ==
    IF G.state # "Loss" /\ G.undiscoved_empty_fields = 0
    THEN [G EXCEPT !.state = "Victory"]
    ELSE G

\* GameBoard::probe_at: the board it leaves; the value it returns is the
\* state field of that board (`return self.state`).
probe_at(G, co, probe_marked) == ProbeFinish(ProbeLoop(G, <<co>>, probe_marked))

\* Bit i of an 8-bit value.
Bit(a, i) == (a \div (2 ^ i)) % 2

\* u8 `g | group`
RECURSIVE BitOr(_, _, _)
BitOr(a, b, i) ==
    IF i = 8 THEN 0
    ELSE (IF Bit(a, i) = 1 \/ Bit(b, i) = 1 THEN 2 ^ i ELSE 0) + BitOr(a, b, i + 1)

\* u8 `g & !group`
RECURSIVE BitAndNot(_, _, _)
BitAndNot(a, b, i) ==
    IF i = 8 THEN 0
    ELSE (IF Bit(a, i) = 1 /\ Bit(b, i) = 0 THEN 2 ^ i ELSE 0) + BitAndNot(a, b, i + 1)

\* Mutant of HighlightMask: un-highlighting keeps the group's bits instead of
\* clearing them (`g & group`).
HighlightMaskNoNot(g, group, enable) ==
    IF enable THEN BitOr(g, group, 0) ELSE g - BitAndNot(g, group, 0)

\* The highlight mask highlight_at stores for old mask g.
HighlightMask(g, group, enable) ==
    IF enable THEN BitOr(g, group, 0) ELSE BitAndNot(g, group, 0)

\* Mutant of HighlightCell: the arm of MarkedEmpty builds UndiscoveredEmpty.
HighlightCellUnmarks(cell, group, enable) ==
    LET g == HighlightMask(cell.g, group, enable)
    IN CASE cell.kind = "UndiscoveredMine" -> UndiscoveredMine(g)
         [] cell.kind = "MarkedMine" -> MarkedMine(g)
         [] cell.kind = "ExplodedMine" -> ExplodedMine(g)
         [] cell.kind = "UndiscoveredEmpty" -> UndiscoveredEmpty(cell.c, cell.d, g)
         [] cell.kind = "MarkedEmpty" -> UndiscoveredEmpty(cell.c, cell.d, g)
         [] cell.kind = "DiscoveredEmpty" -> DiscoveredEmpty(cell.c, cell.d, g)

\* The match of highlight_at: one arm per variant, in both branches.
HighlightCell(cell, group, enable) ==
    LET g == HighlightMask(cell.g, group, enable)
    IN CASE cell.kind = "UndiscoveredMine" -> UndiscoveredMine(g)
         [] cell.kind = "MarkedMine" -> MarkedMine(g)
         [] cell.kind = "ExplodedMine" -> ExplodedMine(g)
         [] cell.kind = "UndiscoveredEmpty" -> UndiscoveredEmpty(cell.c, cell.d, g)
         [] cell.kind = "MarkedEmpty" -> MarkedEmpty(cell.c, cell.d, g)
         [] cell.kind = "DiscoveredEmpty" -> DiscoveredEmpty(cell.c, cell.d, g)

\* GameBoard::highlight_at
highlight_at(G, co, group, enable) ==
    [G EXCEPT !.board[co] = HighlightCell(@, group, enable)]

\* ---------------------------------------------------- GameBoard::new
\* The supplied or drawn 64-bit seeds the model considers.
Seeds == 0..(NumSeeds - 1)

\* The seeded generator (ChaCha8Rng) as a deterministic stream: a
\* multiplicative congruential generator of full period over 1..RngModulus-1.
RngModulus == 251
RngMultiplier == 6

\* ChaCha8Rng::seed_from_u64 expands the 64-bit seed into the generator's key
\* with another generator; here an affine map onto 1..RngModulus-1, one to one
\* on the seeds considered.
SeedMultiplier == 24
SeedIncrement == 243
seed_from_u64(sd) == ((sd * SeedMultiplier + SeedIncrement) % (RngModulus - 1)) + 1

\* The generator's state after one draw.
RngNext(rng) == (rng * RngMultiplier) % RngModulus

\* `if size > 1 {rng.gen_range(0..size)} else {0usize}`: the index drawn and
\* the generator's state afterwards (no draw is made on an axis of size 1).
\* gen_range scales the drawn word by the range and keeps the high part.
DrawAxis(rng, n) ==
    IF n > 1 THEN [ix |-> (RngNext(rng) * n) \div RngModulus, rng |-> RngNext(rng)]
    ELSE [ix |-> 0, rng |-> rng]

\* One iteration of the mine loop: six draws, x first.
DrawCoord(rng, sz) ==
    LET dx == DrawAxis(rng, sz[1])
        dy == DrawAxis(dx.rng, sz[2])
        dz == DrawAxis(dy.rng, sz[3])
        du == DrawAxis(dz.rng, sz[4])
        dv == DrawAxis(du.rng, sz[5])
        dw == DrawAxis(dv.rng, sz[6])
    IN [co |-> <<dx.ix, dy.ix, dz.ix, du.ix, dv.ix, dw.ix>>, rng |-> dw.rng]

\* "Generate empty board"
EmptyBoard(sz) == [co \in Coords(sz) |-> UndiscoveredEmpty(0, 0, 0)]

\* Mutant of CanPlace: a drawn cell is taken whatever it holds.
CanPlaceAlways(b, co) == TRUE

\* The test of the mine loop: the drawn cell is still the empty cell.
CanPlace(b, co) == b[co] = UndiscoveredEmpty(0, 0, 0)

\* "Generate mines into field": `while mines_placed < mine_count`.
RECURSIVE PlaceMines(_, _, _, _, _)
PlaceMines(b, rng, mines_placed, mines, sz) ==
    IF mines_placed < mines
    THEN LET dr == DrawCoord(rng, sz)
         IN IF CanPlace(b, dr.co)
            THEN PlaceMines([b EXCEPT ![dr.co] = UndiscoveredMine(0)], dr.rng,
                            mines_placed + 1, mines, sz)
            ELSE PlaceMines(b, dr.rng, mines_placed, mines, sz)
    ELSE b

\* `neighbouring_mines` of one cell: the entries of the six nested loops (the
\* cell itself is not skipped here) that hold an UndiscoveredMine.
RECURSIVE CountMines(_, _, _)
CountMines(b, entries, i) ==
    IF i > Len(entries) THEN 0
    ELSE (IF b[entries[i]].kind = "UndiscoveredMine" THEN 1 ELSE 0)
         + CountMines(b, entries, i + 1)

\* Mutant of CountNeighbors: the delta of a counted cell starts at 0.
CountNeighborsNoDelta(b, sz, wr) ==
    [co \in Coords(sz) |->
        LET neighbouring_mines == CountMines(b, NestedLoops(co, sz, wr), 1)
        IN IF b[co] = UndiscoveredEmpty(0, 0, 0)
           THEN UndiscoveredEmpty(neighbouring_mines, 0, 0)
           ELSE b[co]]

\* "Count neighbors": every cell still UndiscoveredEmpty(0, 0, 0) gets its count.
CountNeighbors(b, sz, wr) ==
    [co \in Coords(sz) |->
        LET neighbouring_mines == CountMines(b, NestedLoops(co, sz, wr), 1)
        IN IF b[co] = UndiscoveredEmpty(0, 0, 0)
           THEN UndiscoveredEmpty(neighbouring_mines, neighbouring_mines, 0)
           ELSE b[co]]

\* One pass of the generation loop for the resolved seed.
Generate(sz, wr, mines, sd) ==
    CountNeighbors(PlaceMines(EmptyBoard(sz), seed_from_u64(sd), 0, mines, sz), sz, wr)

\* Mutant of AcceptedSeeds: the test on the initial field is missing.
AcceptedSeedsNoTest(sz, wr, mines, initial, sd) ==
    IF sd # None THEN {Unwrap(sd)} ELSE Seeds

\* Mutant of AcceptedSeeds: a supplied seed is not used.
AcceptedSeedsIgnoreSeed(sz, wr, mines, initial, sd) ==
    {s \in Seeds :
        \/ initial = None
        \/ Generate(sz, wr, mines, s)[Unwrap(initial)].kind = "UndiscoveredEmpty"}

\* The seeds the generation loop can end with: the supplied seed; else any
\* drawn seed whose grid passes the test on the initial field.
AcceptedSeeds(sz, wr, mines, initial, sd) ==
    IF sd # None THEN {Unwrap(sd)}
    ELSE {s \in Seeds :
            \/ initial = None
            \/ Generate(sz, wr, mines, s)[Unwrap(initial)].kind = "UndiscoveredEmpty"}

\* Mutant of NewStruct: total_fields is the number of empty cells.
NewStructTotalOff(sz, wr, mines, sd) ==
    [size |-> sz, wrap |-> wr, seed |-> sd, board |-> Generate(sz, wr, mines, sd),
     state |-> "Running", mine_count |-> mines, marked_as_mine |-> 0,
     undiscoved_empty_fields |-> Product(sz) - mines, total_fields |-> Product(sz) - mines]

\* The struct `ret` built after the loop.
NewStruct(sz, wr, mines, sd) ==
    [size |-> sz, wrap |-> wr, seed |-> sd, board |-> Generate(sz, wr, mines, sd),
     state |-> "Running", mine_count |-> mines, marked_as_mine |-> 0,
     undiscoved_empty_fields |-> Product(sz) - mines, total_fields |-> Product(sz)]

\* The closing probe: "This also sets the state to failure if seed was used".
InitialProbe(G, initial) ==
    IF initial # None THEN probe_at(G, Unwrap(initial), FALSE) ELSE G

\* GameBoard::new: the boards it can return.
new(sz, wr, mines, initial, sd) ==
    {InitialProbe(NewStruct(sz, wr, mines, s), initial) :
        s \in AcceptedSeeds(sz, wr, mines, initial, sd)}

\* ------------------------------------------------------ specification
\* Construction parameters: sizes >= 1, 1 <= mine_count < total.
\* The boards are the lines along any one axis and the planes over x and y.
IsLine(sz) == Cardinality({i \in 1..DIMENSIONS_COUNT : sz[i] > 1}) = 1
IsPlane(sz) ==
    /\ sz[1] <= MaxPlane
    /\ sz[2] <= MaxPlane
    /\ \A i \in 3..DIMENSIONS_COUNT : sz[i] = 1
Sizes ==
    {sz \in [1..DIMENSIONS_COUNT -> 1..MaxAxis] :
        Product(sz) >= 2 /\ (IsLine(sz) \/ IsPlane(sz))}
Wraps == {wr \in [1..DIMENSIONS_COUNT -> BOOLEAN] :
            Cardinality({i \in 1..DIMENSIONS_COUNT : wr[i]}) <= MaxWrapped}

\* The group masks the highlight command is issued with.
Groups == {3}

Store(G) ==
    /\ size' = G.size
    /\ wrap' = G.wrap
    /\ seed' = G.seed
    /\ board' = G.board
    /\ state' = G.state
    /\ mine_count' = G.mine_count
    /\ marked_as_mine' = G.marked_as_mine
    /\ undiscoved_empty_fields' = G.undiscoved_empty_fields
    /\ total_fields' = G.total_fields

\* GameBoard::new on every choice of its arguments; with_initial tells whether
\* an initial field may be passed.
Construct(with_initial) ==
    \E sz \in Sizes, wr \in Wraps :
      \E mines \in 1..(Product(sz) - 1),
         initial \in IF with_initial THEN {None} \cup {Some(co) : co \in Coords(sz)}
                     ELSE {None},
         sd \in {None} \cup {Some(s) : s \in Seeds} :
        \E G \in new(sz, wr, mines, initial, sd) :
          /\ size = G.size
          /\ wrap = G.wrap
          /\ seed = G.seed
          /\ board = G.board
          /\ state = G.state
          /\ mine_count = G.mine_count
          /\ marked_as_mine = G.marked_as_mine
          /\ undiscoved_empty_fields = G.undiscoved_empty_fields
          /\ total_fields = G.total_fields
          /\ newArgs = [fresh |-> TRUE, initial |-> initial, seed |-> sd]

Init ==
    /\ Construct(TRUE)
    /\ call = NoCall
    /\ bwi = NoBWI

ProbeAt(co, probe_marked) ==
    /\ Store(probe_at(Self, co, probe_marked))
    /\ newArgs' = NoArgs
    /\ UNCHANGED <<call, bwi>>

MarkAt(co) ==
    /\ Store(mark_at(Self, co))
    /\ newArgs' = NoArgs
    /\ UNCHANGED <<call, bwi>>

\* The coordinates highlight_at is issued on.
HighlightCoords ==
    {co \in Coords(size) : co[1] + co[2] + co[3] + co[4] + co[5] + co[6] <= MaxHighlightIndex}

HighlightAt(co, group, enable) ==
    /\ Store(highlight_at(Self, co, group, enable))
    /\ newArgs' = NoArgs
    /\ UNCHANGED <<call, bwi>>

Next ==
    \/ \E co \in Coords(size), probe_marked \in BOOLEAN : ProbeAt(co, probe_marked)
    \/ \E co \in Coords(size) : MarkAt(co)
    \/ \E co \in HighlightCoords, group \in Groups, enable \in BOOLEAN :
          HighlightAt(co, group, enable)

Spec == Init /\ [][Next]_vars

\* ------------------------------------- specification of the highlights
\* The values of `group: u8`.
U8 == 0..255

\* The two-cell line without wrap, constructed without an initial field, with
\* highlight_at issued with every group mask on its first cell.
InitMask ==
    /\ Init
    /\ size = <<2, 1, 1, 1, 1, 1>>
    /\ \A i \in 1..DIMENSIONS_COUNT : ~wrap[i]
    /\ newArgs.initial = None

NextMask ==
    \/ \E co \in Coords(size), probe_marked \in BOOLEAN : ProbeAt(co, probe_marked)
    \/ \E co \in Coords(size) : MarkAt(co)
    \/ \E group \in U8, enable \in BOOLEAN :
          HighlightAt(<<0, 0, 0, 0, 0, 0>>, group, enable)

SpecMask == InitMask /\ [][NextMask]_vars

\* -------------------------------------------- specification of the UI
\* One game as main.rs issues the commands: `self.game` is None until the
\* first primary click, which calls start(); afterwards probe_at and mark_at
\* run only while state() is neither Victory nor Loss, and highlight_at runs
\* at any time.  reset() (which drops the game) is left out: the
\* specification follows one GameBoard.
GameIsNone == size = NoBoard.size

InitUI ==
    /\ size = NoBoard.size
    /\ wrap = NoBoard.wrap
    /\ seed = NoBoard.seed
    /\ board = NoBoard.board
    /\ state = NoBoard.state
    /\ mine_count = NoBoard.mine_count
    /\ marked_as_mine = NoBoard.marked_as_mine
    /\ undiscoved_empty_fields = NoBoard.undiscoved_empty_fields
    /\ total_fields = NoBoard.total_fields
    /\ newArgs = NoArgs
    /\ call = NoCall
    /\ bwi = NoBWI

\* start(initial) with a seed setting: `seed_text` is the outcome of
\* `u64::from_str_radix(&seed, 16).ok()`; the board is built without an
\* initial field and then probed with allow_probing_marked = true.
UIStartSeeded(sz, wr, mines, seed_text, initial) ==
    /\ GameIsNone
    /\ \E G \in new(sz, wr, mines, None, seed_text) :
          Store(probe_at(G, initial, TRUE))
    /\ newArgs' = NoArgs
    /\ UNCHANGED <<call, bwi>>

\* start(initial) without a seed setting: `new(.., Some(initial), None)`.
UIStartUnseeded(sz, wr, mines, initial) ==
    /\ GameIsNone
    /\ \E G \in new(sz, wr, mines, Some(initial), None) : Store(G)
    /\ newArgs' = [fresh |-> TRUE, initial |-> Some(initial), seed |-> None]
    /\ UNCHANGED <<call, bwi>>

\* Mutant of UIProbe: the click probes whatever the game state is.
UIProbeUnguarded(co, probe_marked) ==
    /\ ~GameIsNone
    /\ ProbeAt(co, probe_marked)

\* Primary click in ProbeAndMark mode on a started game.
UIProbe(co, probe_marked) ==
    /\ ~GameIsNone
    /\ state # "Victory" /\ state # "Loss"
    /\ ProbeAt(co, probe_marked)

\* Secondary click in ProbeAndMark mode.
UIMark(co) ==
    /\ ~GameIsNone
    /\ state # "Victory" /\ state # "Loss"
    /\ MarkAt(co)

\* Primary / secondary click or drag in Highlighter mode.
UIHighlight(co, group, enable) ==
    /\ ~GameIsNone
    /\ HighlightAt(co, group, enable)

\* The cells a click can land on (`get_coords`) once a game is started, and
\* those of them highlight_at is issued on.
UICoords == IF GameIsNone THEN {} ELSE Coords(size)
UIHighlightCoords ==
    {co \in UICoords : co[1] + co[2] + co[3] + co[4] + co[5] + co[6] <= MaxHighlightIndex}

NextUI ==
    \/ \E sz \in Sizes, wr \in Wraps :
         \E mines \in 1..(Product(sz) - 1), initial \in Coords(sz),
            seed_text \in {None} \cup {Some(s) : s \in Seeds} :
           UIStartSeeded(sz, wr, mines, seed_text, initial)
    \/ \E sz \in Sizes, wr \in Wraps :
         \E mines \in 1..(Product(sz) - 1), initial \in Coords(sz) :
           UIStartUnseeded(sz, wr, mines, initial)
    \/ \E co \in UICoords, probe_marked \in BOOLEAN : UIProbe(co, probe_marked)
    \/ \E co \in UICoords : UIMark(co)
    \/ \E co \in UIHighlightCoords, group \in Groups, enable \in BOOLEAN :
          UIHighlight(co, group, enable)

SpecUI == InitUI /\ [][NextUI]_vars

\* ---------------------------------- specification of GameBoard::new's loops
\* GameBoard::new run one step at a time on the lines along x.  The values
\* `rng.gen_range` returns are not computed from the seed here: one pass of
\* the mine loop draws any coordinate of the board.  The locals of the call
\* are fields of newArgs: pc ("loop": at the head of `loop`, "place": in the
\* mine loop, "break": past `loop`, "done": returned), board_6d, mines_placed, final_chacha_seed;
\* `drawn` is the coordinate of the last pass of the mine loop and `retried`
\* tells whether a grid has been discarded.  The struct variables stay at
\* NoBoard until the call returns.
NewSizes == {sz \in Sizes : \A i \in 2..DIMENSIONS_COUNT : sz[i] = 1}
NewWraps == {wr \in Wraps : \A i \in 2..DIMENSIONS_COUNT : ~wr[i]}

InitNew ==
    /\ size = NoBoard.size
    /\ wrap = NoBoard.wrap
    /\ seed = NoBoard.seed
    /\ board = NoBoard.board
    /\ state = NoBoard.state
    /\ mine_count = NoBoard.mine_count
    /\ marked_as_mine = NoBoard.marked_as_mine
    /\ undiscoved_empty_fields = NoBoard.undiscoved_empty_fields
    /\ total_fields = NoBoard.total_fields
    /\ call = NoCall
    /\ bwi = NoBWI
    /\ \E sz \in NewSizes, wr \in NewWraps :
         \E mines \in 1..(Product(sz) - 1),
            initial \in {None} \cup {Some(co) : co \in Coords(sz)},
            sd \in {None} \cup {Some(s) : s \in Seeds} :
           newArgs = [fresh |-> FALSE, initial |-> initial, seed |-> sd,
                      sizes |-> sz, wraps |-> wr, mine_count |-> mines,
                      pc |-> "loop", board_6d |-> <<>>, mines_placed |-> 0,
                      final_chacha_seed |-> 0, drawn |-> None, retried |-> FALSE]

\* The head of `loop`: the empty board, the seed of this pass, the counter.
NewLoop ==
    /\ newArgs.pc = "loop"
    /\ \E s \in IF newArgs.seed # None THEN {Unwrap(newArgs.seed)} ELSE Seeds :
          newArgs' = [newArgs EXCEPT !.pc = "place",
                                     !.board_6d = EmptyBoard(newArgs.sizes),
                                     !.final_chacha_seed = s,
                                     !.mines_placed = 0]
    /\ UNCHANGED <<size, wrap, seed, board, state, mine_count, marked_as_mine,
                   undiscoved_empty_fields, total_fields, call, bwi>>

\* One pass of `while mines_placed < mine_count` that draws co.
NewDraw(co) ==
    /\ newArgs.pc = "place"
    /\ newArgs.mines_placed < newArgs.mine_count
    /\ co \in Coords(newArgs.sizes)
    /\ newArgs' =
          IF CanPlace(newArgs.board_6d, co)
          THEN [newArgs EXCEPT !.board_6d[co] = UndiscoveredMine(0),
                               !.mines_placed = @ + 1,
                               !.drawn = Some(co)]
          ELSE [newArgs EXCEPT !.drawn = Some(co)]
    /\ UNCHANGED <<size, wrap, seed, board, state, mine_count, marked_as_mine,
                   undiscoved_empty_fields, total_fields, call, bwi>>

\* The grid after "Count neighbors", once the mine loop has ended.
NewCounted == CountNeighbors(newArgs.board_6d, newArgs.sizes, newArgs.wraps)

\* The tests that end `loop`: a seed was supplied, or no initial field was,
\* or the initial field is an empty cell.
NewBreaks ==
    IF newArgs.seed # None THEN TRUE
    ELSE IF newArgs.initial = None THEN TRUE
    ELSE NewCounted[Unwrap(newArgs.initial)].kind = "UndiscoveredEmpty"

\* Mutant of NewRetry: the discarded grid is kept, the mine loop is re-entered
\* with its counter as it stands.
NewRetryKeepsGrid ==
    /\ newArgs.pc = "place"
    /\ newArgs.mines_placed >= newArgs.mine_count
    /\ ~NewBreaks
    /\ newArgs' = [newArgs EXCEPT !.pc = "place", !.retried = TRUE]
    /\ UNCHANGED <<size, wrap, seed, board, state, mine_count, marked_as_mine,
                   undiscoved_empty_fields, total_fields, call, bwi>>

\* The mine loop has ended, the counts are written, no test breaks: the grid
\* is dropped (`board_6d = Vec::new()`) and `loop` starts over.
NewRetry ==
    /\ newArgs.pc = "place"
    /\ newArgs.mines_placed >= newArgs.mine_count
    /\ ~NewBreaks
    /\ newArgs' = [newArgs EXCEPT !.pc = "loop", !.board_6d = <<>>, !.retried = TRUE]
    /\ UNCHANGED <<size, wrap, seed, board, state, mine_count, marked_as_mine,
                   undiscoved_empty_fields, total_fields, call, bwi>>

\* The mine loop has ended, the counts are written, a test breaks: `loop` is
\* left with the counted grid.
NewBreak ==
    /\ newArgs.pc = "place"
    /\ newArgs.mines_placed >= newArgs.mine_count
    /\ NewBreaks
    /\ newArgs' = [newArgs EXCEPT !.pc = "break", !.board_6d = NewCounted]
    /\ UNCHANGED <<size, wrap, seed, board, state, mine_count, marked_as_mine,
                   undiscoved_empty_fields, total_fields, call, bwi>>

\* After `loop`: the struct is built, the initial field (if any) is probed
\* and the board is returned.
NewReturn ==
    /\ newArgs.pc = "break"
    /\ Store(InitialProbe(
          [size |-> newArgs.sizes, wrap |-> newArgs.wraps,
           seed |-> newArgs.final_chacha_seed, board |-> newArgs.board_6d,
           state |-> "Running", mine_count |-> newArgs.mine_count,
           marked_as_mine |-> 0,
           undiscoved_empty_fields |-> Product(newArgs.sizes) - newArgs.mine_count,
           total_fields |-> Product(newArgs.sizes)],
          newArgs.initial))
    /\ newArgs' = [newArgs EXCEPT !.pc = "done", !.fresh = TRUE]
    /\ UNCHANGED <<call, bwi>>

NextNew ==
    \/ NewLoop
    \/ \E i \in 0..(MaxAxis - 1) : NewDraw(<<i, 0, 0, 0, 0, 0>>)
    \/ NewRetry
    \/ NewBreak
    \/ NewReturn

\* The code of `loop` runs on (weak fairness of its steps that draw nothing),
\* and the random source is fair: every cell is drawn infinitely often if the
\* mine loop is entered again and again.
FairNew ==
    /\ WF_vars(NewLoop)
    /\ WF_vars(NewRetry)
    /\ WF_vars(NewBreak)
    /\ \A i \in 0..(MaxAxis - 1) : SF_vars(NewDraw(<<i, 0, 0, 0, 0, 0>>))

SpecNew == InitNew /\ [][NextNew]_vars /\ FairNew

\* ------------------------------------- specification of probe_at's loop
\* probe_at run one loop iteration at a time, on boards constructed without
\* an initial field; mark_at is issued between the calls.  `enqueued` counts
\* the coordinates pushed to the queue in the current call, `steps` the loop
\* iterations of the current call, and
\* `pushes` counts, per cell and over the board's life, how often the arm of
\* that cell ran the neighbour loops.
InitProbe ==
    /\ Construct(FALSE)
    /\ call = [active |-> FALSE, deque |-> <<>>, probe_marked |-> FALSE,
               enqueued |-> 0, steps |-> 0, pushes |-> [co \in Coords(size) |-> 0]]
    /\ bwi = NoBWI

\* `let mut deque = VecDeque::from([(xx,yy,zz,uu,vv,ww)]);`
ProbeStart(co, probe_marked) ==
    /\ ~call.active
    /\ call' = [call EXCEPT !.active = TRUE, !.deque = <<co>>,
                            !.probe_marked = probe_marked, !.enqueued = 1,
                            !.steps = 0]
    /\ newArgs' = NoArgs
    /\ UNCHANGED <<size, wrap, seed, board, state, mine_count, marked_as_mine,
                   undiscoved_empty_fields, total_fields, bwi>>

\* One iteration of `while let Some(..) = deque.pop_front()`.
ProbeStep ==
    /\ call.active
    /\ call.deque # <<>>
    /\ LET co == Head(call.deque)
           r == ProbeCell(Self, co, call.probe_marked)
       IN /\ Store(r.G)
          /\ call' = [call EXCEPT !.deque = Tail(@) \o r.push,
                                  !.enqueued = @ + Len(r.push),
                                  !.steps = @ + 1,
                                  !.pushes[co] = IF r.push # <<>> THEN @ + 1 ELSE @]
    /\ UNCHANGED <<newArgs, bwi>>

\* The loop ends on the empty queue; the victory test; `return self.state`.
ProbeReturn ==
    /\ call.active
    /\ call.deque = <<>>
    /\ Store(ProbeFinish(Self))
    /\ call' = [call EXCEPT !.active = FALSE, !.enqueued = 0, !.steps = 0]
    /\ UNCHANGED <<newArgs, bwi>>

\* mark_at between two calls of probe_at.
MarkBetween(co) ==
    /\ ~call.active
    /\ MarkAt(co)

NextProbe ==
    \/ \E co \in Coords(size), probe_marked \in BOOLEAN : ProbeStart(co, probe_marked)
    \/ ProbeStep
    \/ ProbeReturn
    \/ \E co \in Coords(size) : MarkBetween(co)

SpecProbe == InitProbe /\ [][NextProbe]_vars

\* ------------------------------------- specification of the iterator
\* One iterator, made by BWI::new on arguments within -MaxBWI..MaxBWI with
\* from <= to and lowest <= highest, and driven by next(); after the first
\* None, next() is called up to MaxNones times in all.
BWIRange == (0 - MaxBWI)..MaxBWI

InitBWI ==
    /\ \E from \in BWIRange, to \in BWIRange, lowest \in BWIRange,
          highest \in BWIRange, wr \in BOOLEAN :
          /\ from <= to
          /\ lowest <= highest
          /\ bwi = [made |-> TRUE,
                    args |-> [from |-> from, to |-> to, lowest |-> lowest,
                              highest |-> highest, wrap |-> wr],
                    it |-> BWINew(from, to, lowest, highest, wr),
                    emitted |-> <<>>,
                    ret |-> None,
                    nones |-> 0,
                    fused |-> TRUE]
    /\ size = NoBoard.size
    /\ wrap = NoBoard.wrap
    /\ seed = NoBoard.seed
    /\ board = NoBoard.board
    /\ state = NoBoard.state
    /\ mine_count = NoBoard.mine_count
    /\ marked_as_mine = NoBoard.marked_as_mine
    /\ undiscoved_empty_fields = NoBoard.undiscoved_empty_fields
    /\ total_fields = NoBoard.total_fields
    /\ newArgs = NoArgs
    /\ call = NoCall

\* One call of next(). `emitted` collects the values returned so far, `nones`
\* counts the calls that returned None and `fused` tells that no value was
\* returned after a None.
BWINext ==
    /\ bwi.made
    /\ bwi.nones < MaxNones
    /\ LET r == BWINextOf(bwi.it)
       IN bwi' = [bwi EXCEPT !.it = r.it,
                             !.ret = r.ret,
                             !.emitted = @ \o r.ret,
                             !.nones = IF r.ret = None THEN @ + 1 ELSE @,
                             !.fused = @ /\ (r.ret = None \/ bwi.nones = 0)]
    /\ UNCHANGED <<size, wrap, seed, board, state, mine_count, marked_as_mine,
                   undiscoved_empty_fields, total_fields, newArgs, call>>

NextBWI == BWINext

SpecBWI == InitBWI /\ [][NextBWI]_vars

\* ------------------------------------------------------------ claims
\* The neighbour set of a cell, stated without the iterator: the other cells
\* that differ by at most 1, modulo wrap, on every axis.
Adjacent(a, b) ==
    /\ a # b
    /\ \A i \in 1..DIMENSIONS_COUNT :
          \/ a[i] - b[i] \in {-1, 0, 1}
          \/ wrap[i] /\ (a[i] - b[i] = size[i] - 1 \/ b[i] - a[i] = size[i] - 1)
Neighbours(co) == {e \in Coords(size) : Adjacent(co, e)}

\* The entries (positions) of the neighbour enumeration of co that hold a
\* marked cell on board b: a cell enumerated twice gives two entries.
MarkedEntries(b, co) ==
    LET nbrs == NeighbourSeq(co, size, wrap)
    IN {i \in 1..Len(nbrs) : IsMarked(b[nbrs[i]])}

\* C1 as stated: every empty cell's delta is its mine_count minus the number
\* of its neighbours that are Marked Mine cells.
C1_DeltaCountsMarkedMines ==
    \A co \in Coords(size) :
        IsEmpty(board[co]) =>
            board[co].d = board[co].c
                - Cardinality({e \in Neighbours(co) : board[e].kind = "MarkedMine"})

\* C1 as amended: every empty cell's delta is its mine_count minus the number
\* of entries of its neighbour enumeration that hold a marked cell of either
\* kind (Marked Mine or Marked Empty).
C1_DeltaCountsMarkedEntries ==
    \A co \in Coords(size) :
        IsEmpty(board[co]) =>
            board[co].d = board[co].c - Cardinality(MarkedEntries(board, co))

\* C1 witness: an empty cell next to a Marked Empty cell, with its delta
\* below its mine_count.
C1_Witness ==
    \E co \in Coords(size), e \in Coords(size) :
        /\ Adjacent(co, e)
        /\ IsEmpty(board[co])
        /\ board[e].kind = "MarkedEmpty"
        /\ board[co].d < board[co].c

\* C2 as stated: the game state changes only from Running.
C2_StateOnlyLeavesRunning == [][state' # state => state = "Running"]_vars

\* C2 as amended: the game state changes only from Running to Victory, from
\* Running to Loss, or from Victory to Loss; Loss is never left.
C2_StateTransitions ==
    [][state' # state =>
          \/ state = "Running" /\ state' \in {"Victory", "Loss"}
          \/ state = "Victory" /\ state' = "Loss"]_vars

\* C2 witness: a won game in which a probe on an Undiscovered Mine ends in Loss.
C2_Witness ==
    /\ state = "Victory"
    /\ ~newArgs.fresh
    /\ \E co \in Coords(size) :
          /\ board[co].kind = "UndiscoveredMine"
          /\ probe_at(Self, co, FALSE).state = "Loss"

\* The cells of `allowed` connected to a cell of S through chains of
\* neighbouring cells of `allowed`, S included.
RECURSIVE Connected(_, _)
Connected(S, allowed) ==
    LET more == S \cup {e \in allowed : \E z \in S : Adjacent(z, e)}
    IN IF more = S THEN S ELSE Connected(more, allowed)

\* A set of cells and all their neighbours.
WithNeighbours(S) == S \cup UNION {Neighbours(z) : z \in S}

\* The empty cells whose mine_count is 0, and those of them still undiscovered.
ZeroCells == {e \in Coords(size) : IsEmpty(board[e]) /\ board[e].c = 0}
UndiscoveredZeroCells == {e \in ZeroCells : board[e].kind = "UndiscoveredEmpty"}

\* The cells the amended C3 says a probe at co discovers.
Revealed(co, probe_marked) ==
    LET Zu == Connected({co}, UndiscoveredZeroCells)
    IN Zu \cup {e \in WithNeighbours(Zu) :
                  \/ board[e].kind = "UndiscoveredEmpty"
                  \/ probe_marked /\ board[e].kind = "MarkedEmpty"}

\* C3 as stated: a probe on an Undiscovered Empty cell of mine_count 0 leaves
\* Discovered exactly the connected zero region and its neighbours, and
\* changes the variant of no other cell.
C3_FloodRevealsZeroRegion ==
    \A co \in Coords(size), probe_marked \in BOOLEAN :
        (board[co].kind = "UndiscoveredEmpty" /\ board[co].c = 0) =>
            LET R == probe_at(Self, co, probe_marked).board
                ZN == WithNeighbours(Connected({co}, ZeroCells))
            IN \A e \in Coords(size) :
                  R[e].kind = IF e \in ZN THEN "DiscoveredEmpty" ELSE board[e].kind

\* C3 as amended: such a probe discovers exactly the zero cells connected to
\* the target through chains of Undiscovered zero cells, and those of their
\* neighbours that are Undiscovered Empty or, when marked cells are probed,
\* Marked Empty; it changes the variant of no other cell.
C3_FloodRevealsUndiscoveredRegion ==
    \A co \in Coords(size), probe_marked \in BOOLEAN :
        (board[co].kind = "UndiscoveredEmpty" /\ board[co].c = 0) =>
            LET R == probe_at(Self, co, probe_marked).board
                Rev == Revealed(co, probe_marked)
            IN \A e \in Coords(size) :
                  R[e].kind = IF e \in Rev THEN "DiscoveredEmpty" ELSE board[e].kind

\* C3 witness: a probe on an undiscovered zero cell that reveals several cells
\* but not all of the zero region and its neighbours, a marked cell being
\* among them.
C3_Witness ==
    \E co \in Coords(size) :
        /\ board[co].kind = "UndiscoveredEmpty"
        /\ board[co].c = 0
        /\ \E e \in WithNeighbours(Connected({co}, ZeroCells)) : IsMarked(board[e])
        /\ Cardinality(Revealed(co, FALSE)) >= 2
        /\ Revealed(co, FALSE) # WithNeighbours(Connected({co}, ZeroCells))
        /\ \A e \in Revealed(co, FALSE) :
              probe_at(Self, co, FALSE).board[e].kind = "DiscoveredEmpty"

\* C4: two consecutive mark_at calls on one coordinate restore the whole board:
\* the cell, every neighbour's delta and the marked-count counter.
C4_MarkTwiceRestores ==
    \A co \in Coords(size) : mark_at(mark_at(Self, co), co) = Self

\* C4 witness: marking a cell on a wrapped axis of size 1 or 2 moves the delta
\* of a neighbour that is enumerated more than once by more than 1.
C4_Witness ==
    \E co \in Coords(size), e \in Coords(size) :
        /\ \E i \in 1..DIMENSIONS_COUNT : wrap[i] /\ size[i] <= 2
        /\ Adjacent(co, e)
        /\ IsEmpty(board[e])
        /\ board[co].kind \in {"UndiscoveredMine", "UndiscoveredEmpty"}
        /\ mark_at(Self, co).board[e].d <= board[e].d - 2
        /\ mark_at(Self, co).marked_as_mine = marked_as_mine + 1

\* The empty cells not yet discovered, and the exploded mines.
HiddenEmpty == {e \in Coords(size) : board[e].kind \in {"UndiscoveredEmpty", "MarkedEmpty"}}
Exploded(b) == {e \in Coords(size) : b[e].kind = "ExplodedMine"}

\* C5: the state is Victory exactly when the undiscovered-empty counter is 0
\* and the state is not Loss; Victory is never reported while an empty cell is
\* Undiscovered or Marked, and once every empty cell is discovered the state is
\* Victory unless it is Loss.
C5_VictoryIffAllDiscovered ==
    /\ state = "Victory" <=> (undiscoved_empty_fields = 0 /\ state # "Loss")
    /\ state = "Victory" => HiddenEmpty = {}
    /\ (HiddenEmpty = {} /\ state # "Loss") => state = "Victory"

\* C5 witness: a probe has discovered the last empty cell of a running game.
C5_Witness ==
    /\ ~newArgs.fresh
    /\ state = "Victory"
    /\ undiscoved_empty_fields = 0
    /\ \E e \in Coords(size) : board[e].kind = "UndiscoveredMine"

\* C6 as stated: a probe on a cell in any mine variant, with either value of
\* allow_probing_marked, returns Loss.
C6_ProbeMineIsLoss ==
    \A co \in Coords(size), probe_marked \in BOOLEAN :
        IsMine(board[co]) => probe_at(Self, co, probe_marked).state = "Loss"

\* C6 as amended: a probe on an Undiscovered Mine or an Exploded Mine, or on a
\* Marked Mine when marked cells are probed, returns Loss; a probe on a Marked
\* Mine when marked cells are not probed changes nothing.
C6_ProbeUnmarkedMineIsLoss ==
    \A co \in Coords(size), probe_marked \in BOOLEAN :
        /\ (\/ board[co].kind \in {"UndiscoveredMine", "ExplodedMine"}
            \/ board[co].kind = "MarkedMine" /\ probe_marked)
              => probe_at(Self, co, probe_marked).state = "Loss"
        /\ (board[co].kind = "MarkedMine" /\ ~probe_marked)
              => probe_at(Self, co, probe_marked) = Self

\* C6 witness: a running game with a Marked Mine, which a probe of marked
\* cells explodes and a probe that spares them leaves alone.
C6_Witness ==
    \E co \in Coords(size) :
        /\ board[co].kind = "MarkedMine"
        /\ state = "Running"
        /\ probe_at(Self, co, TRUE).state = "Loss"
        /\ probe_at(Self, co, FALSE).state = "Running"

\* C7: the state is Loss exactly when some cell is Exploded Mine; a cell
\* becomes Exploded Mine only by a probe_at that leaves the state Loss, and only
\* from Undiscovered Mine or, when marked cells are probed, Marked Mine.
C7_LossIffExploded ==
    /\ state = "Loss" <=> Exploded(board) # {}
    /\ \A co \in Coords(size) :
          /\ \A probe_marked \in BOOLEAN :
                LET R == probe_at(Self, co, probe_marked)
                IN \A e \in Exploded(R.board) \ Exploded(board) :
                      /\ R.state = "Loss"
                      /\ \/ board[e].kind = "UndiscoveredMine"
                         \/ board[e].kind = "MarkedMine" /\ probe_marked
          /\ Exploded(mark_at(Self, co).board) = Exploded(board)
          /\ \A group \in Groups, enable \in BOOLEAN :
                Exploded(highlight_at(Self, co, group, enable).board) = Exploded(board)

\* C7 witness: a lost game, after a command, with an exploded mine.
C7_Witness ==
    /\ ~newArgs.fresh
    /\ state = "Loss"
    /\ Exploded(board) # {}

\* C8: on a constructed board every empty cell's mine_count is the number of
\* distinct mine cells in its neighbour set.
C8_CountIsDistinctMines ==
    newArgs.fresh =>
        \A co \in Coords(size) :
            IsEmpty(board[co]) =>
                board[co].c = Cardinality({e \in Neighbours(co) : IsMine(board[e])})

\* C9: no command changes the mine_count of an empty cell (nor turns an empty
\* cell into a mine).
C9_MineCountFixed ==
    [][\A co \in Coords(size) :
          IsEmpty(board[co]) => IsEmpty(board'[co]) /\ board'[co].c = board[co].c]_vars

\* C9 witness: after commands, an empty cell with a positive mine_count whose
\* variant and delta have both changed.
C9_Witness ==
    /\ ~newArgs.fresh
    /\ \E co \in Coords(size) :
          /\ board[co].kind \in {"MarkedEmpty", "DiscoveredEmpty"}
          /\ board[co].c > 0
          /\ board[co].d # board[co].c

\* Whether the construction was given a seed and an initial field with a mine.
SeededInitialMine ==
    /\ newArgs.seed # None
    /\ newArgs.initial # None
    /\ IsMine(board[Unwrap(newArgs.initial)])

\* C10 as stated: a constructed board is Running, except that it is Loss when
\* a seed was supplied and the initial field is a mine.
C10_NewIsRunningOrLoss ==
    newArgs.fresh => state = IF SeededInitialMine THEN "Loss" ELSE "Running"

\* C10 as amended: a constructed board is Loss exactly when a seed was supplied
\* and the initial field is a mine; otherwise it is Running, or Victory when an
\* initial field was given and the opening probe discovered every empty cell.
C10_NewStates ==
    newArgs.fresh =>
        /\ state = "Loss" <=> SeededInitialMine
        /\ state = "Victory" <=>
              (newArgs.initial # None /\ ~SeededInitialMine /\ HiddenEmpty = {})

\* C10 witness: a board constructed with an initial field that is already won.
C10_Witness ==
    /\ newArgs.fresh
    /\ state = "Victory"
    /\ newArgs.initial # None

\* C11: a board constructed without a seed and with an initial field has its
\* initial field Discovered Empty, is not Loss and has no Exploded Mine; a board
\* constructed with a seed keeps that seed and the mines of the first grid
\* generated from it, also when the initial field is one of them.
C11_InitialIsSafe ==
    /\ (newArgs.fresh /\ newArgs.seed = None /\ newArgs.initial # None) =>
          /\ state # "Loss"
          /\ Exploded(board) = {}
          /\ board[Unwrap(newArgs.initial)].kind = "DiscoveredEmpty"
    /\ (newArgs.fresh /\ newArgs.seed # None) =>
          /\ seed = Unwrap(newArgs.seed)
          /\ \A co \in Coords(size) :
                IsMine(board[co]) <=>
                    IsMine(Generate(size, wrap, mine_count, Unwrap(newArgs.seed))[co])

\* C11 witness: a board constructed without a seed on an initial field where
\* one of the seeds the generator can draw puts a mine.
C11_Witness ==
    /\ newArgs.fresh
    /\ newArgs.seed = None
    /\ newArgs.initial # None
    /\ board[Unwrap(newArgs.initial)].kind = "DiscoveredEmpty"
    /\ \E s \in Seeds :
          IsMine(Generate(size, wrap, mine_count, s)[Unwrap(newArgs.initial)])

\* The cells of a board that hold a mine variant.
MineCells(b) == {co \in Coords(size) : IsMine(b[co])}

\* The boards one command can leave.
AfterCommand ==
    {probe_at(Self, co, pm) : co \in Coords(size), pm \in BOOLEAN}
        \cup {mark_at(Self, co) : co \in Coords(size)}
        \cup {highlight_at(Self, co, group, enable) :
                co \in HighlightCoords, group \in Groups, enable \in BOOLEAN}

\* C13: in every reachable state the number of cells holding a mine variant
\* is the configured mine_count, and no command turns a mine variant into an
\* empty variant or an empty variant into a mine variant.
C13_MineCountExact ==
    /\ Cardinality(MineCells(board)) = mine_count
    /\ \A R \in AfterCommand : MineCells(R.board) = MineCells(board)

\* C13 witness: a board with at least two mines whose generation drew the
\* same cell twice in a row, after commands that marked a mine and exploded
\* another.
C13_Witness ==
    /\ mine_count >= 2
    /\ LET d1 == DrawCoord(seed_from_u64(seed), size)
       IN d1.co = DrawCoord(d1.rng, size).co
    /\ \E a, b \in Coords(size) :
          board[a].kind = "MarkedMine" /\ board[b].kind = "ExplodedMine"

NumberedCells == {co \in Coords(size) : board[co].kind = "UndiscoveredEmpty" /\ board[co].c # 0}

\* What C15 says of probe_at on such a cell, but for the state it leaves.
ProbeNumberedFrame(co, R) ==
    /\ R.board = [board EXCEPT ![co] = DiscoveredEmpty(board[co].c, board[co].d, board[co].g)]
    /\ ProbePush(Self, co) = <<>>
    /\ R.undiscoved_empty_fields = undiscoved_empty_fields - 1
    /\ R.marked_as_mine = marked_as_mine
    /\ R.mine_count = mine_count
    /\ R.total_fields = total_fields
    /\ R.size = size /\ R.wrap = wrap /\ R.seed = seed

\* C15 as stated: probe_at on an Undiscovered Empty cell whose mine count is
\* not 0 changes that cell alone, to Discovered Empty with the same mine count,
\* delta and highlight, enqueues no neighbour, decrements the counter by 1 and
\* leaves the state Running unless it was the last empty cell not discovered.
C15_ProbeNumberedLeavesRunning ==
    \A co \in NumberedCells, pm \in BOOLEAN :
        LET R == probe_at(Self, co, pm)
        IN /\ ProbeNumberedFrame(co, R)
           /\ R.state = IF HiddenEmpty = {co} THEN "Victory" ELSE "Running"

\* C15 as amended: the same, but the state is left as it was (Running, or Loss
\* on a board that is already lost) unless the cell was the last empty cell
\* not discovered of a board that is not Loss, which becomes Victory.
C15_ProbeNumberedKeepsState ==
    \A co \in NumberedCells, pm \in BOOLEAN :
        LET R == probe_at(Self, co, pm)
        IN /\ ProbeNumberedFrame(co, R)
           /\ R.state = IF HiddenEmpty = {co} /\ state # "Loss" THEN "Victory" ELSE state
           /\ state \in {"Running", "Loss"}

\* C15 witness: a 2x2 board without wrap whose one mine is marked, with the
\* cell (0,0) highlighted (on such a board each cell neighbours the mine);
\* probing (0,0) leaves it Discovered Empty with mine count 1, delta 0 and the
\* same highlight, in state Running.
C15_Witness ==
    LET o == <<0, 0, 0, 0, 0, 0>>
    IN /\ size = <<2, 2, 1, 1, 1, 1>>
       /\ \A i \in 1..DIMENSIONS_COUNT : ~wrap[i]
       /\ mine_count = 1
       /\ \E m \in Coords(size) : board[m].kind = "MarkedMine"
       /\ board[o] = UndiscoveredEmpty(1, 0, 3)
       /\ state = "Running"
       /\ probe_at(Self, o, FALSE).board[o] = DiscoveredEmpty(1, 0, 3)
       /\ probe_at(Self, o, FALSE).state = "Running"

\* C19: highlight_at, on any coordinate, cell variant and game state, changes
\* nothing but the highlight bitmask of the target cell: its variant, mine
\* count and delta, every other cell, both counters, the game state and the
\* stored configuration stay as they were.
C19_HighlightFrame ==
    \A co \in Coords(size), group \in Groups, enable \in BOOLEAN :
        LET R == highlight_at(Self, co, group, enable)
        IN /\ R.board[co].kind = board[co].kind
           /\ R.board[co].c = board[co].c
           /\ R.board[co].d = board[co].d
           /\ \A e \in Coords(size) \ {co} : R.board[e] = board[e]
           /\ DOMAIN R.board = DOMAIN board
           /\ R.marked_as_mine = marked_as_mine
           /\ R.undiscoved_empty_fields = undiscoved_empty_fields
           /\ R.state = state
           /\ R.size = size /\ R.wrap = wrap /\ R.seed = seed
           /\ R.mine_count = mine_count /\ R.total_fields = total_fields

\* C19 witness: a lost board whose exploded mine is highlighted and on which
\* a Marked Empty cell exists; un-highlighting the exploded mine clears its
\* bitmask.
C19_Witness ==
    LET o == <<0, 0, 0, 0, 0, 0>>
    IN /\ state = "Loss"
       /\ board[o] = ExplodedMine(3)
       /\ \E e \in Coords(size) : board[e].kind = "MarkedEmpty"
       /\ highlight_at(Self, o, 3, FALSE).board[o] = ExplodedMine(0)

\* The positions of the bits set in an 8-bit value.
BitSet(a) == {i \in 0..7 : (a \div (2 ^ i)) % 2 = 1}

\* The highlight of the first cell after highlight_at on it from board G.
MaskAfter(G, m, enable) == highlight_at(G, <<0, 0, 0, 0, 0, 0>>, m, enable)

\* C20: for every 8-bit highlight h and group mask m, highlight_at with
\* enable=true stores h OR m and with enable=false stores h AND NOT m, both
\* 8-bit values; issuing either twice is the same as issuing it once; enable
\* followed by disable with the same m leaves h AND NOT m.
C20_MaskArithmetic ==
    LET o == <<0, 0, 0, 0, 0, 0>>
        h == board[o].g
    IN \A m \in U8 :
        LET En == MaskAfter(Self, m, TRUE)
            Dis == MaskAfter(Self, m, FALSE)
        IN /\ En.board[o].g \in U8
           /\ BitSet(En.board[o].g) = BitSet(h) \cup BitSet(m)
           /\ Dis.board[o].g \in U8
           /\ BitSet(Dis.board[o].g) = BitSet(h) \ BitSet(m)
           /\ MaskAfter(En, m, TRUE) = En
           /\ MaskAfter(Dis, m, FALSE) = Dis
           /\ MaskAfter(En, m, FALSE).board[o].g = Dis.board[o].g

\* C20 witness: a marked cell whose highlight has some bits set and some
\* clear, and a group mask that shares some of its bits and adds others.
C20_Witness ==
    LET o == <<0, 0, 0, 0, 0, 0>>
        h == board[o].g
    IN /\ IsMarked(board[o])
       /\ h = 170
       /\ \E m \in U8 :
             /\ BitSet(m) \cap BitSet(h) # {}
             /\ BitSet(m) \ BitSet(h) # {}
             /\ MaskAfter(Self, m, TRUE).board[o].g \notin {h, m}
             /\ MaskAfter(Self, m, FALSE).board[o].g \notin {h, 0}

\* The ascending sequence lo, lo+1, .., hi; empty when lo > hi.
Interval(lo, hi) == IF hi >= lo THEN [i \in 1..(hi - lo + 1) |-> lo + i - 1] ELSE <<>>
Max(a, b) == IF a >= b THEN a ELSE b
Min(a, b) == IF a <= b THEN a ELSE b
Occurrences(sq, v) == Cardinality({i \in 1..Len(sq) : sq[i] = v})

\* The iterator has returned None: a `for` loop over it has ended.
Exhausted == bwi.made /\ bwi.nones >= 1

\* The stepwise iterator and the sequence the board's loops run over agree.
BWIAgrees ==
    Exhausted =>
        bwi.emitted = BWI(bwi.args.from, bwi.args.to, bwi.args.lowest,
                          bwi.args.highest, bwi.args.wrap)

\* The arguments are BWI::new(idx-1, idx+1, 0, n-1, _).
IsWindow(n, idx) ==
    /\ bwi.args.from = idx - 1
    /\ bwi.args.to = idx + 1
    /\ bwi.args.lowest = 0
    /\ bwi.args.highest = n - 1

\* C16: for n >= 1 and idx in 0..n-1, BWI::new(idx-1, idx+1, 0, n-1, false)
\* yields exactly the ascending intersection of [idx-1, idx+1] with [0, n-1];
\* with wrap=true it yields those values, and n-1 once more when idx = 0, and
\* 0 once more when idx = n-1.
C16_WindowValues ==
    Exhausted =>
        \A n \in 1..(MaxBWI + 1) : \A idx \in 0..(n - 1) :
            IsWindow(n, idx) =>
                LET clip == Interval(Max(idx - 1, 0), Min(idx + 1, n - 1))
                IN IF ~bwi.args.wrap
                   THEN bwi.emitted = clip
                   ELSE /\ \A i \in 1..Len(bwi.emitted) : bwi.emitted[i] \in 0..(n - 1)
                        /\ \A v \in 0..(n - 1) :
                              Occurrences(bwi.emitted, v) =
                                  Occurrences(clip, v)
                                  + (IF idx = 0 /\ v = n - 1 THEN 1 ELSE 0)
                                  + (IF idx = n - 1 /\ v = 0 THEN 1 ELSE 0)

\* C16 witness: the wrapped axis of size 1, where the one index is both the
\* first and the last, has yielded it three times.
C16_Witness ==
    /\ Exhausted
    /\ IsWindow(1, 0)
    /\ bwi.args.wrap
    /\ bwi.emitted = <<0, 0, 0>>

\* The wrapped values C18 describes, as the arguments decide them.
WrappedLowest ==
    IF bwi.args.wrap /\ bwi.args.to > bwi.args.highest THEN <<bwi.args.lowest>> ELSE <<>>
WrappedHighest ==
    IF bwi.args.wrap /\ bwi.args.from < bwi.args.lowest THEN <<bwi.args.highest>> ELSE <<>>

\* The window [from, to] clipped to [lowest, highest].
ClippedRun ==
    Interval(Max(bwi.args.from, bwi.args.lowest), Min(bwi.args.to, bwi.args.highest))

\* C17: for all from <= to and lowest <= highest, the contiguous run the
\* iterator yields (between the wrapped values) is max(from, lowest) ..
\* min(to, highest), empty when that maximum exceeds that minimum; with
\* wrap=false every value yielded lies in [lowest, highest].
C17_RunIsClippedWindow ==
    Exhausted =>
        /\ bwi.emitted = WrappedLowest \o ClippedRun \o WrappedHighest
        /\ ~bwi.args.wrap =>
              \A i \in 1..Len(bwi.emitted) :
                  bwi.emitted[i] \in bwi.args.lowest..bwi.args.highest

\* What the iterator yielded between the wrapped values.
MiddleRun ==
    SubSeq(bwi.emitted, Len(WrappedLowest) + 1, Len(bwi.emitted) - Len(WrappedHighest))

\* C18: the iterator yields the wrapped lowest value first (exactly when wrap
\* holds and the original `to` exceeds highest), then a run ascending by 1
\* (the clipped window, when the window meets the bounds), then the wrapped
\* highest value last (exactly when wrap holds and the original `from` is
\* below lowest); the sequence is finite, and once next() has returned None
\* every further call returns None.
C18_EmissionOrder ==
    bwi.made =>
        /\ bwi.fused
        /\ Len(bwi.emitted) <= (bwi.args.to - bwi.args.from + 1) + 2
        /\ bwi.nones >= 1 =>
              /\ bwi.ret = None
              /\ Len(bwi.emitted) >= Len(WrappedLowest) + Len(WrappedHighest)
              /\ bwi.emitted = WrappedLowest \o MiddleRun \o WrappedHighest
              /\ \A i \in 1..(Len(MiddleRun) - 1) : MiddleRun[i + 1] = MiddleRun[i] + 1
              /\ ClippedRun # <<>> => MiddleRun = ClippedRun

\* C18 witness: an iterator that has yielded the wrapped lowest value, a run
\* of three values and the wrapped highest value, and has then returned None
\* twice.
C18_Witness ==
    /\ bwi.made
    /\ bwi.nones = 2
    /\ WrappedLowest # <<>>
    /\ WrappedHighest # <<>>
    /\ Len(bwi.emitted) = 5
    /\ bwi.args.lowest < bwi.args.highest

\* The largest number of neighbour coordinates one cell enumerates, each
\* counted as often as the loops yield it.
FanOut ==
    LET lens == {Len(NeighbourSeq(co, size, wrap)) : co \in Coords(size)}
    IN CHOOSE n \in lens : \A k \in lens : k <= n

\* The coordinates one call of probe_at can enqueue, as C12 bounds them.
QueueBound == 1 + total_fields * FanOut

\* C12: every call of probe_at returns: each loop iteration takes one
\* coordinate off the queue, the queue receives at most 1 + cells x per-cell
\* fan-out coordinates in one call (on wrapped axes of size 1 or 2 too), since
\* over the board's life a cell enqueues its neighbours at most once, and
\* every queued coordinate is a cell of the board, so that a call in progress
\* can always take its next iteration, or return once the queue is empty.
C12_ProbeTerminates ==
    /\ \A co \in Coords(size) : call.pushes[co] <= 1
    /\ call.active =>
          /\ call.enqueued <= QueueBound
          /\ call.steps + Len(call.deque) = call.enqueued
          /\ \A i \in 1..Len(call.deque) : call.deque[i] \in Coords(size)

\* C12 witness: a call about to return on a board with a wrapped axis of size
\* at most 2, in which more coordinates were enqueued than the board has
\* cells.
C12_Witness ==
    /\ call.active
    /\ call.deque = <<>>
    /\ call.enqueued > total_fields + 1
    /\ \E i \in 1..DIMENSIONS_COUNT : wrap[i] /\ size[i] <= 2

\* The cells mark_at ignores.
SettledCells == {co \in Coords(size) : board[co].kind \in {"ExplodedMine", "DiscoveredEmpty"}}

\* C21: mark_at on a cell that is Exploded Mine or Discovered Empty leaves the
\* whole board as it was: the target cell, every other cell (so every delta),
\* the marked counter, the undiscovered-empty counter and the game state.
C21_MarkSettledIsNoOp ==
    \A co \in SettledCells :
        LET R == mark_at(Self, co)
        IN /\ R.board = board
           /\ R.marked_as_mine = marked_as_mine
           /\ R.undiscoved_empty_fields = undiscoved_empty_fields
           /\ R.state = state
           /\ R = Self

\* C21 witness: a board holding an Exploded Mine and a Discovered Empty cell
\* that each have a neighbouring empty cell, and a marked cell.
C21_Witness ==
    /\ marked_as_mine > 0
    /\ \E a \in SettledCells, b \in SettledCells :
          /\ board[a].kind = "ExplodedMine"
          /\ board[b].kind = "DiscoveredEmpty"
          /\ \E e \in Neighbours(a) : IsEmpty(board[e])
          /\ \E e \in Neighbours(b) : IsEmpty(board[e])

\* The variant changes of one cell that mark_at may make.
MarkMoves ==
    {<<"UndiscoveredMine", "MarkedMine">>, <<"MarkedMine", "UndiscoveredMine">>,
     <<"UndiscoveredEmpty", "MarkedEmpty">>, <<"MarkedEmpty", "UndiscoveredEmpty">>}

\* The variant changes of one cell that probe_at may make.
ProbeMoves(probe_marked) ==
    {<<"UndiscoveredMine", "ExplodedMine">>, <<"UndiscoveredEmpty", "DiscoveredEmpty">>}
        \cup IF probe_marked
             THEN {<<"MarkedMine", "ExplodedMine">>, <<"MarkedEmpty", "DiscoveredEmpty">>}
             ELSE {}

\* The variant changes between board b and board R.board, as pairs.
Moves(b, R) ==
    {<<b[co].kind, R.board[co].kind>> : co \in {e \in Coords(size) : b[e].kind # R.board[e].kind}}

\* C22: the variant of a cell changes only by Undiscovered Mine <-> Marked
\* Mine and Undiscovered Empty <-> Marked Empty under mark_at (and then only
\* at the target), by Undiscovered Mine -> Exploded Mine and Undiscovered
\* Empty -> Discovered Empty under probe_at, and by Marked Mine -> Exploded
\* Mine and Marked Empty -> Discovered Empty under probe_at with
\* probe_marked; highlight_at changes no variant; an Exploded Mine or
\* Discovered Empty cell keeps its variant under every command.
C22_CellStateMachine ==
    /\ \A co \in Coords(size) :
          /\ Moves(board, mark_at(Self, co)) \subseteq MarkMoves
          /\ \A e \in Coords(size) \ {co} : mark_at(Self, co).board[e].kind = board[e].kind
          /\ \A pm \in BOOLEAN : Moves(board, probe_at(Self, co, pm)) \subseteq ProbeMoves(pm)
          /\ \A group \in Groups, enable \in BOOLEAN :
                Moves(board, highlight_at(Self, co, group, enable)) = {}
    /\ \A R \in AfterCommand :
          \A co \in SettledCells : R.board[co].kind = board[co].kind

\* C22 witness: a lost board (it holds an Exploded Mine) on which one probe
\* with probe_marked discovers an Undiscovered Empty cell and a Marked Empty
\* cell at once.
C22_Witness ==
    /\ \E a \in Coords(size) : board[a].kind = "ExplodedMine"
    /\ \E co \in Coords(size) :
          LET M == Moves(board, probe_at(Self, co, TRUE))
          IN /\ <<"UndiscoveredEmpty", "DiscoveredEmpty">> \in M
             /\ <<"MarkedEmpty", "DiscoveredEmpty">> \in M

\* C23: total_fields is the product of the six axis sizes on every board, and
\* neither probe_at nor mark_at nor highlight_at changes total_fields, size,
\* wrap, the stored seed or the configured mine count.
C23_ConfigurationFixed ==
    /\ total_fields = size[1] * size[2] * size[3] * size[4] * size[5] * size[6]
    /\ \A R \in AfterCommand :
          /\ R.total_fields = total_fields
          /\ R.size = size
          /\ R.wrap = wrap
          /\ R.seed = seed
          /\ R.mine_count = mine_count

\* C23 witness: a finished game on a 2x2 plane with a wrapped axis, after
\* commands.
C23_Witness ==
    /\ ~newArgs.fresh
    /\ total_fields = 4
    /\ size[1] = 2 /\ size[2] = 2
    /\ \E i \in 1..DIMENSIONS_COUNT : wrap[i]
    /\ state # "Running"
    /\ marked_as_mine > 0

\* On board b, every empty cell's delta is its mine_count minus the number of
\* entries of its neighbour enumeration that hold a marked cell.
DeltaInvariant(b) ==
    \A co \in Coords(size) :
        IsEmpty(b[co]) => b[co].d = b[co].c - Cardinality(MarkedEntries(b, co))

\* C24: in every reachable state each empty cell has delta = mine_count minus
\* the number of entries of its neighbour enumeration (self excluded, counted
\* with multiplicity) that are Marked Mine or Marked Empty; and this still
\* holds after mark_at, after probe_at with either value of probe_marked and
\* after highlight_at, on any coordinate.
C24_DeltaInvariant ==
    /\ DeltaInvariant(board)
    /\ \A co \in Coords(size) :
          /\ DeltaInvariant(mark_at(Self, co).board)
          /\ DeltaInvariant(probe_at(Self, co, TRUE).board)
          /\ DeltaInvariant(probe_at(Self, co, FALSE).board)
          /\ \A group \in Groups, enable \in BOOLEAN :
                DeltaInvariant(highlight_at(Self, co, group, enable).board)

\* C24 witness: an empty cell whose enumeration yields one marked neighbour
\* twice (so its delta is 2 below what one mark would give), on a board where
\* a probe with probe_marked then reveals that marked neighbour and raises the
\* delta again.
C24_Witness ==
    \E co \in Coords(size), e \in Coords(size) :
        /\ IsEmpty(board[co])
        /\ board[e].kind = "MarkedEmpty"
        /\ Occurrences(NeighbourSeq(co, size, wrap), e) = 2
        /\ board[co].d = board[co].c - 2
        /\ probe_at(Self, e, TRUE).board[co].d = board[co].c

\* C25: once the game state is Loss, every probe_at (with either value of
\* probe_marked), mark_at and highlight_at leaves it Loss, also the probe
\* that discovers the last empty cell and brings the undiscovered-empty
\* counter to 0.
C25_LossIsAbsorbing ==
    state = "Loss" =>
        \A co \in Coords(size) :
            /\ \A pm \in BOOLEAN : probe_at(Self, co, pm).state = "Loss"
            /\ mark_at(Self, co).state = "Loss"
            /\ \A group \in Groups, enable \in BOOLEAN :
                  highlight_at(Self, co, group, enable).state = "Loss"

\* C25 witness: a lost game in which a later probe discovers the last empty
\* cell: the counter reaches 0 and the state is still Loss.
C25_Witness ==
    /\ state = "Loss"
    /\ undiscoved_empty_fields = 1
    /\ \E co \in Coords(size) :
          /\ board[co].kind = "UndiscoveredEmpty"
          /\ probe_at(Self, co, FALSE).undiscoved_empty_fields = 0
          /\ probe_at(Self, co, FALSE).state = "Loss"

\* probe_at's loop from queue `deque` on board G pushes empty cells only.
RECURSIVE PushesOnlyEmpty(_, _, _)
PushesOnlyEmpty(G, deque, probe_marked) ==
    IF deque = <<>> THEN TRUE
    ELSE LET r == ProbeCell(G, Head(deque), probe_marked)
         IN /\ \A i \in 1..Len(r.push) : IsEmpty(G.board[r.push[i]])
            /\ PushesOnlyEmpty(r.G, Tail(deque) \o r.push, probe_marked)

\* C26: in a probe_at call every coordinate enqueued after the initial one is
\* an empty cell; the call turns at most one cell into Exploded Mine; and a
\* call whose target is an empty cell does not change the state to Loss; for
\* either value of probe_marked.
C26_FloodAvoidsMines ==
    \A co \in Coords(size), pm \in BOOLEAN :
        LET R == probe_at(Self, co, pm)
        IN /\ PushesOnlyEmpty(Self, <<co>>, pm)
           /\ Cardinality(Exploded(R.board) \ Exploded(board)) <= 1
           /\ Exploded(R.board) \ Exploded(board) \subseteq {co}
           /\ IsEmpty(board[co]) => (R.state = "Loss" => state = "Loss")

\* C26 witness: a running board with a Marked Mine on which a probe with
\* probe_marked of a cell without neighbouring mines floods to other cells,
\* explodes nothing and does not lose the game.
C26_Witness ==
    /\ state = "Running"
    /\ \E a \in Coords(size) : board[a].kind = "MarkedMine"
    /\ \E co \in Coords(size) :
          /\ board[co].kind = "UndiscoveredEmpty"
          /\ board[co].c = 0
          /\ ProbePush(Self, co) # <<>>
          /\ Exploded(probe_at(Self, co, TRUE).board) = {}
          /\ probe_at(Self, co, TRUE).state # "Loss"

\* C27: with the commands issued as the UI issues them (probe_at and mark_at
\* only while the state is Running, highlight_at at any time), no step of a
\* game leads to a board with more than one Exploded Mine, and a step taken
\* when the state is Victory or Loss keeps the state, the configuration, the
\* two counters and every cell's variant, mine count and delta: only the
\* highlight bitmasks can change.
C27_UIGameOverIsFinal ==
    [][/\ Cardinality({e \in Coords(size') : board'[e].kind = "ExplodedMine"}) <= 1
       /\ state \in {"Victory", "Loss"} =>
            /\ state' = state
            /\ UNCHANGED <<size, wrap, seed, mine_count, total_fields,
                           marked_as_mine, undiscoved_empty_fields>>
            /\ \A e \in Coords(size) :
                  /\ board'[e].kind = board[e].kind
                  /\ board'[e].c = board[e].c
                  /\ board'[e].d = board[e].d]_vars

\* C27 witness: a game lost by the seeded start's probe (no cell is
\* discovered, so the game was over from its first step) in which another
\* mine is still hidden and a highlight bit has been set after the end.
C27_Witness ==
    /\ ~GameIsNone
    /\ state = "Loss"
    /\ Cardinality(Exploded(board)) = 1
    /\ \A e \in Coords(size) : board[e].kind # "DiscoveredEmpty"
    /\ \E e \in Coords(size) : board[e].kind = "UndiscoveredMine"
    /\ \E e \in Coords(size) : board[e].g # 0

\* The cells of board b that are Marked Mine or Marked Empty.
MarkedCells(b) == {e \in Coords(size) : IsMarked(b[e])}

\* C28: marked_as_mine equals the number of Marked Mine and Marked Empty
\* cells and is never negative, now and after every command; mark_at adds 1
\* when it marks, subtracts 1 when it unmarks and adds 0 on a revealed cell;
\* and a probe_at call lowers it by the number of marked cells the call
\* reveals or explodes, which with probe_marked on a marked target is that
\* target alone.
C28_MarkedCounter ==
    /\ marked_as_mine = Cardinality(MarkedCells(board))
    /\ marked_as_mine >= 0
    /\ \A R \in AfterCommand :
          R.marked_as_mine = Cardinality(MarkedCells(R.board)) /\ R.marked_as_mine >= 0
    /\ \A co \in Coords(size) :
          mark_at(Self, co).marked_as_mine =
              marked_as_mine
              + (CASE board[co].kind \in {"UndiscoveredMine", "UndiscoveredEmpty"} -> 1
                   [] board[co].kind \in {"MarkedMine", "MarkedEmpty"} -> -1
                   [] OTHER -> 0)
    /\ \A co \in Coords(size), pm \in BOOLEAN :
          LET R == probe_at(Self, co, pm)
              unmarked == MarkedCells(board) \ MarkedCells(R.board)
          IN /\ R.marked_as_mine = marked_as_mine - Cardinality(unmarked)
             /\ MarkedCells(R.board) \subseteq MarkedCells(board)
             /\ (pm /\ IsMarked(board[co])) => unmarked = {co}
             /\ ~pm => unmarked = {}

\* C28 witness: two cells are marked, one a mine and one empty, and probing
\* either with probe_marked brings the counter from 2 to 1.
C28_Witness ==
    /\ marked_as_mine = 2
    /\ \E a, e \in Coords(size) :
          /\ board[a].kind = "MarkedMine"
          /\ board[e].kind = "MarkedEmpty"
          /\ probe_at(Self, a, TRUE).marked_as_mine = 1
          /\ probe_at(Self, e, TRUE).marked_as_mine = 1
          /\ mark_at(Self, a).marked_as_mine = 1

\* The cells of board b that are empty and not yet discovered, and those that
\* are discovered.
HiddenEmptyCells(b) ==
    {e \in Coords(size) : b[e].kind \in {"UndiscoveredEmpty", "MarkedEmpty"}}
DiscoveredCells(b) == {e \in Coords(size) : b[e].kind = "DiscoveredEmpty"}

\* C29: undiscoved_empty_fields equals the number of Undiscovered Empty and
\* Marked Empty cells, which is total_fields - mine_count - the number of
\* Discovered Empty cells, and is never negative, now and after every
\* command; mark_at and highlight_at leave it as it is.
C29_UndiscoveredCounter ==
    /\ undiscoved_empty_fields = Cardinality(HiddenEmptyCells(board))
    /\ undiscoved_empty_fields =
          total_fields - mine_count - Cardinality(DiscoveredCells(board))
    /\ undiscoved_empty_fields >= 0
    /\ \A R \in AfterCommand :
          /\ R.undiscoved_empty_fields = Cardinality(HiddenEmptyCells(R.board))
          /\ R.undiscoved_empty_fields =
                R.total_fields - R.mine_count - Cardinality(DiscoveredCells(R.board))
          /\ R.undiscoved_empty_fields >= 0
    /\ \A co \in Coords(size) :
          /\ mark_at(Self, co).undiscoved_empty_fields = undiscoved_empty_fields
          /\ \A group \in Groups, enable \in BOOLEAN :
                highlight_at(Self, co, group, enable).undiscoved_empty_fields
                    = undiscoved_empty_fields

\* C29 witness: a board with a Marked Empty, an Undiscovered Empty and a
\* Discovered Empty cell, on which probing the marked cell with probe_marked
\* lowers the counter by 1 and marking a cell leaves it.
C29_Witness ==
    /\ undiscoved_empty_fields >= 2
    /\ DiscoveredCells(board) # {}
    /\ \E e, u \in Coords(size) :
          /\ board[e].kind = "MarkedEmpty"
          /\ board[u].kind = "UndiscoveredEmpty"
          /\ probe_at(Self, e, TRUE).undiscoved_empty_fields = undiscoved_empty_fields - 1
          /\ mark_at(Self, u).undiscoved_empty_fields = undiscoved_empty_fields

\* C30: probe_at with probe_marked on a marked cell leaves that cell
\* Discovered Empty with its mine count, delta and highlight (if it was
\* Marked Empty) or Exploded Mine with its highlight and the state Loss (if
\* it was Marked Mine); marked_as_mine is lower by 1; every other empty cell
\* keeps its variant, mine count and highlight and has its delta raised by
\* the number of times the probed cell's neighbour loops enumerate it; and
\* every other mine is unchanged.
C30_ProbeMarkedUnmarksFirst ==
    \A co \in Coords(size) :
        IsMarked(board[co]) =>
            LET R == probe_at(Self, co, TRUE)
                nbrs == NeighbourSeq(co, size, wrap)
            IN /\ board[co].kind = "MarkedEmpty" =>
                      R.board[co] = DiscoveredEmpty(board[co].c, board[co].d, board[co].g)
               /\ board[co].kind = "MarkedMine" =>
                      /\ R.board[co] = ExplodedMine(board[co].g)
                      /\ R.state = "Loss"
               /\ R.marked_as_mine = marked_as_mine - 1
               /\ \A e \in Coords(size) \ {co} :
                      IF IsEmpty(board[e])
                      THEN R.board[e] = [board[e] EXCEPT !.d = @ + Occurrences(nbrs, e)]
                      ELSE R.board[e] = board[e]

\* C30 witness: a Marked Empty cell next to an empty cell and a Marked Mine
\* next to an empty cell, each probed with probe_marked: the neighbour's
\* delta goes up and the probed cell is revealed, respectively exploded.
C30_Witness ==
    /\ state = "Running"
    /\ \E co, e \in Coords(size) :
          /\ board[co].kind = "MarkedEmpty"
          /\ IsEmpty(board[e])
          /\ Occurrences(NeighbourSeq(co, size, wrap), e) >= 1
          /\ probe_at(Self, co, TRUE).board[e].d > board[e].d
          /\ probe_at(Self, co, TRUE).board[co].kind = "DiscoveredEmpty"
    /\ \E co, e \in Coords(size) :
          /\ board[co].kind = "MarkedMine"
          /\ IsEmpty(board[e])
          /\ Occurrences(NeighbourSeq(co, size, wrap), e) >= 1
          /\ probe_at(Self, co, TRUE).board[e].d > board[e].d
          /\ probe_at(Self, co, TRUE).board[co].kind = "ExplodedMine"

\* C31: probe_at without probe_marked leaves every Marked Mine and Marked
\* Empty cell as it is (variant, mine count, delta and highlight), whether
\* the cell is the target or a cell the flood fill visits; it leaves
\* marked_as_mine and the delta of every cell unchanged; and on a marked
\* target it returns the board and the game state unchanged.
C31_ProbeUnmarkedKeepsMarks ==
    \A co \in Coords(size) :
        LET R == probe_at(Self, co, FALSE)
        IN /\ \A e \in Coords(size) : IsMarked(board[e]) => R.board[e] = board[e]
           /\ R.marked_as_mine = marked_as_mine
           /\ \A e \in Coords(size) : R.board[e].d = board[e].d
           /\ IsMarked(board[co]) => R = Self

\* C31 witness: a running board on which the flood fill of a probe without
\* probe_marked starts at a cell with no neighbouring mines, visits a Marked
\* Empty neighbour and leaves it marked while discovering the target; and a
\* marked target exists as well.
C31_Witness ==
    /\ state = "Running"
    /\ \E co, e \in Coords(size) :
          /\ board[co].kind = "UndiscoveredEmpty"
          /\ board[co].c = 0
          /\ board[e].kind = "MarkedEmpty"
          /\ Occurrences(ProbePush(Self, co), e) >= 1
          /\ probe_at(Self, co, FALSE).board[co].kind = "DiscoveredEmpty"
          /\ probe_at(Self, co, FALSE).board[e].kind = "MarkedEmpty"
          /\ probe_at(Self, e, FALSE) = Self

\* C32: mark_at on any cell keeps the game state, undiscoved_empty_fields
\* and the configuration; the target keeps its mine count, delta and
\* highlight and changes variant only between its undiscovered and marked
\* forms; every other cell keeps its variant, mine count and highlight;
\* every other mine cell and every cell outside the target's neighbour
\* enumeration is unchanged altogether; and marked_as_mine moves by at most 1.
C32_MarkFrame ==
    \A co \in Coords(size) :
        LET R == mark_at(Self, co)
            nbrs == NeighbourSeq(co, size, wrap)
        IN /\ R.state = state
           /\ R.undiscoved_empty_fields = undiscoved_empty_fields
           /\ R.size = size /\ R.wrap = wrap /\ R.seed = seed
           /\ R.mine_count = mine_count /\ R.total_fields = total_fields
           /\ R.board[co].c = board[co].c
           /\ R.board[co].d = board[co].d
           /\ R.board[co].g = board[co].g
           /\ IsMine(R.board[co]) = IsMine(board[co])
           /\ \/ R.board[co].kind = board[co].kind
              \/ IsMarked(R.board[co]) # IsMarked(board[co])
           /\ \A e \in Coords(size) \ {co} :
                 /\ R.board[e].kind = board[e].kind
                 /\ R.board[e].c = board[e].c
                 /\ R.board[e].g = board[e].g
                 /\ IsMine(board[e]) => R.board[e] = board[e]
                 /\ Occurrences(nbrs, e) = 0 => R.board[e] = board[e]
           /\ R.marked_as_mine - marked_as_mine \in {-1, 0, 1}

\* C32 witness: an Undiscovered Empty target with a positive delta, with an
\* empty neighbour and a mine among the other cells: marking it changes the
\* neighbour's delta and the counter, and nothing of the mine or of the
\* target's own numbers.
C32_Witness ==
    /\ state = "Running"
    /\ \E co, e, m \in Coords(size) :
          /\ board[co].kind = "UndiscoveredEmpty"
          /\ board[co].d > 0
          /\ e # co /\ IsEmpty(board[e])
          /\ m # co /\ IsMine(board[m])
          /\ mark_at(Self, co).board[e].d = board[e].d - 1
          /\ mark_at(Self, co).board[co].kind = "MarkedEmpty"
          /\ mark_at(Self, co).board[co].d = board[co].d
          /\ mark_at(Self, co).board[m] = board[m]
          /\ mark_at(Self, co).marked_as_mine = marked_as_mine + 1

\* No value occurs twice in sq.
PairwiseDistinct(sq) == \A i, j \in 1..Len(sq) : sq[i] = sq[j] => i = j

\* C33: for n >= 1, idx in 0..n-1, the values BWI::new(idx-1, idx+1, 0, n-1,
\* wrap) has yielded when it returns None are: between 1 and 3 pairwise
\* distinct values when n >= 3 or wrap is false; exactly 3 values when wrap
\* is true and n is 1 (idx three times) or 2 (one of 0 and 1 twice, the
\* other once); and in that last case, on every board with such an axis, the
\* neighbour enumeration of a cell at idx lists some neighbour at least twice.
C33_WindowDuplicates ==
    Exhausted =>
        \A n \in 1..(MaxBWI + 1) : \A idx \in 0..(n - 1) :
            IsWindow(n, idx) =>
                IF n >= 3 \/ ~bwi.args.wrap
                THEN /\ Len(bwi.emitted) \in 1..3
                     /\ PairwiseDistinct(bwi.emitted)
                ELSE /\ Len(bwi.emitted) = 3
                     /\ ~PairwiseDistinct(bwi.emitted)
                     /\ n = 1 => bwi.emitted = <<idx, idx, idx>>
                     /\ n = 2 => \E v \in {0, 1} :
                                    /\ Occurrences(bwi.emitted, v) = 2
                                    /\ Occurrences(bwi.emitted, 1 - v) = 1
                     /\ \A sz \in Sizes, wr \in Wraps, axis \in 1..DIMENSIONS_COUNT :
                           (sz[axis] = n /\ wr[axis]) =>
                               \A co \in Coords(sz) :
                                   co[axis] = idx =>
                                       /\ AxisBWI(co, axis, sz, wr) = bwi.emitted
                                       /\ \E e \in Coords(sz) :
                                             Occurrences(NeighbourSeq(co, sz, wr), e) >= 2

\* C33 witness: the iterator of a wrapped axis of size 2 around index 1 has
\* run out after yielding 0 twice and 1 once.
C33_Witness ==
    /\ Exhausted
    /\ IsWindow(2, 1)
    /\ bwi.args.wrap
    /\ bwi.emitted = <<0, 0, 1>>

\* The cells of grid b that hold a mine.
NewMines(b) == {co \in DOMAIN b : b[co].kind = "UndiscoveredMine"}

\* GameBoard::new has returned.
NewDone == newArgs.pc = "done"

\* `loop` has been left: construction goes on to the struct and returns.
NewLoopLeft == newArgs.pc \in {"break", "done"}

\* The mine loop has ended: its `while` test fails.
NewPlaced == newArgs.pc = "place" /\ newArgs.mines_placed >= newArgs.mine_count

\* No grid can be discarded: a seed is supplied, or no initial field is, or
\* there is one mine only.
NewRetryFree ==
    newArgs.seed # None \/ newArgs.initial = None \/ newArgs.mine_count = 1

\* C34 as stated: with 1 <= mine_count < total and every cell drawn
\* infinitely often while sampling continues, the loops of every call of
\* GameBoard::new come to an end.
C34_ConstructionReturns ==
    (newArgs.pc = "loop") ~> NewLoopLeft

\* C34: with 1 <= mine_count < total and every cell drawn infinitely often
\* while sampling continues, (1) the mine loop holds as many mines as it has
\* counted, never more than mine_count, and exactly mine_count when `loop`
\* is left, and an unseeded call with an initial field leaves `loop` with
\* that field empty; (2) every entry of the mine loop leads to its end;
\* (3) `loop` is left whenever a seed is supplied, or no initial field is
\* given, or mine_count is 1.
C34_ConstructionTerminates ==
    /\ [](/\ newArgs.pc = "place" =>
                /\ Cardinality(NewMines(newArgs.board_6d)) = newArgs.mines_placed
                /\ newArgs.mines_placed <= newArgs.mine_count
          /\ newArgs.pc = "break" =>
                /\ Cardinality(NewMines(newArgs.board_6d)) = newArgs.mine_count
                /\ (newArgs.seed = None /\ newArgs.initial # None) =>
                      newArgs.board_6d[Unwrap(newArgs.initial)].kind = "UndiscoveredEmpty")
    /\ (newArgs.pc = "place") ~> (NewPlaced \/ NewLoopLeft)
    /\ (newArgs.pc = "loop" /\ NewRetryFree) ~> NewLoopLeft

\* C34 witness: an unseeded call with an initial field and one mine has
\* discarded a grid and has then returned a board whose initial field is
\* discovered.
C34_Witness ==
    /\ NewDone
    /\ newArgs.retried
    /\ newArgs.seed = None
    /\ newArgs.initial # None
    /\ newArgs.mine_count = 1
    /\ board[Unwrap(newArgs.initial)].kind = "DiscoveredEmpty"

\* C35: a board just constructed without an initial field is Running, has
\* marked_as_mine = 0 and undiscoved_empty_fields = total_fields - mine_count
\* with total_fields the number of cells; each of its mine cells is
\* UndiscoveredMine(0) and each of its empty cells is UndiscoveredEmpty(c, c, 0),
\* where c is the cell's mine count.
C35_FreshBoard ==
    (newArgs.fresh /\ newArgs.initial = None) =>
        /\ state = "Running"
        /\ marked_as_mine = 0
        /\ total_fields = Cardinality(Coords(size))
        /\ undiscoved_empty_fields = total_fields - mine_count
        /\ \A co \in Coords(size) :
              IF IsMine(board[co])
              THEN board[co] = UndiscoveredMine(0)
              ELSE /\ board[co] = UndiscoveredEmpty(board[co].c, board[co].c, 0)
                   /\ board[co].c = CountMines(board, NeighbourSeq(co, size, wrap), 1)

\* C35 witness: a board just constructed without an initial field, with a
\* supplied seed, that has at least two mines and an empty cell next to one.
C35_Witness ==
    /\ newArgs.fresh
    /\ newArgs.initial = None
    /\ newArgs.seed # None
    /\ mine_count >= 2
    /\ \E co \in Coords(size) : board[co].kind = "UndiscoveredEmpty" /\ board[co].d >= 1

\* C36: probe_at (with either value of probe_marked) and mark_at on any cell
\* leave the highlight bitmask of every cell as it is; highlight_at on a cell
\* leaves every other cell as it is.
C36_HighlightFrame ==
    \A co \in Coords(size) :
        /\ \A pm \in BOOLEAN, e \in Coords(size) :
              probe_at(Self, co, pm).board[e].g = board[e].g
        /\ \A e \in Coords(size) : mark_at(Self, co).board[e].g = board[e].g
        /\ \A group \in Groups, enable \in BOOLEAN, e \in Coords(size) \ {co} :
              highlight_at(Self, co, group, enable).board[e] = board[e]

\* C36 witness: a highlighted Marked Empty cell that a probe with
\* probe_marked unmarks and reveals, and whose delta the marking of a
\* neighbour changes, with the highlight still set after each.
C36_Witness ==
    \E co, e \in Coords(size) :
        /\ board[co].kind = "MarkedEmpty"
        /\ board[co].g # 0
        /\ probe_at(Self, co, TRUE).board[co].kind = "DiscoveredEmpty"
        /\ probe_at(Self, co, TRUE).board[co].g = board[co].g
        /\ e # co
        /\ mark_at(Self, e).board[co].d # board[co].d
        /\ mark_at(Self, e).board[co].g = board[co].g

\* C37: for any two different cells a and b, mark_at(a) followed by
\* mark_at(b) gives the same struct (cells with their deltas, counters, state)
\* as mark_at(b) followed by mark_at(a).
C37_MarksCommute ==
    \A a, b \in Coords(size) :
        a # b => mark_at(mark_at(Self, a), b) = mark_at(mark_at(Self, b), a)

\* C37 witness: two Undiscovered Empty cells that enumerate each other as
\* neighbours; after both are marked, in either order, each has had its delta
\* lowered by the other's mark and the counter has grown by 2.
C37_Witness ==
    \E a, b \in Coords(size) :
        /\ a # b
        /\ board[a].kind = "UndiscoveredEmpty"
        /\ board[b].kind = "UndiscoveredEmpty"
        /\ Occurrences(NeighbourSeq(a, size, wrap), b) >= 1
        /\ LET R == mark_at(mark_at(Self, a), b)
           IN /\ R.board[a].kind = "MarkedEmpty"
              /\ R.board[b].kind = "MarkedEmpty"
              /\ R.board[a].d < board[a].d
              /\ R.board[b].d < board[b].d
              /\ R.marked_as_mine = marked_as_mine + 2
              /\ R = mark_at(mark_at(Self, b), a)

\* On one axis of n cells, index j is yielded around i as often as i around j.
AxisSymmetric ==
    \A n \in 1..(MaxBWI + 1), wr \in BOOLEAN :
        \A i, j \in 0..(n - 1) :
            Occurrences(BWI(i - 1, i + 1, 0, n - 1, wr), j)
                = Occurrences(BWI(j - 1, j + 1, 0, n - 1, wr), i)

\* The entries of the neighbour enumerations around the mines of board b
\* that are the cell co: pairs of a mine and the rank of the entry among the
\* entries of that mine's enumeration equal to co.
EntriesFromMines(b, co) ==
    UNION {{<<m, i>> : i \in 1..Occurrences(NeighbourSeq(m, size, wrap), co)} :
              m \in MineCells(b)}

\* C38: on every axis length and wrap flag each index is yielded around
\* another as often as the other around it; on every board any two different
\* cells enumerate each other the same number of times; hence the mine count
\* of an empty cell, counted at generation around the cell, is also the number
\* of entries equal to the cell in the enumerations around the mines, which
\* are the entries mark_at adjusts.
C38_NeighboursSymmetric ==
    /\ AxisSymmetric
    /\ \A a, b \in Coords(size) :
          a # b => Occurrences(NeighbourSeq(a, size, wrap), b)
                      = Occurrences(NeighbourSeq(b, size, wrap), a)
    /\ \A co \in Coords(size) :
          IsEmpty(board[co]) => board[co].c = Cardinality(EntriesFromMines(board, co))

\* C38 witness: a board with a wrapped axis on which an empty cell and a mine
\* enumerate each other twice, so that the cell's mine count is 2 from one
\* mine.
C38_Witness ==
    \E a, m \in Coords(size) :
        /\ IsEmpty(board[a])
        /\ IsMine(board[m])
        /\ Occurrences(NeighbourSeq(a, size, wrap), m) = 2
        /\ Occurrences(NeighbourSeq(m, size, wrap), a) = 2
        /\ mine_count = 1
        /\ board[a].c = 2

====
